---- MODULE Spec2Model ----
(***************************************************************************)
(* A model of the Backlog MCP server: the pagination normalizer, the error *)
(* classifier (handleError), the request executor (BacklogClient.request), *)
(* the tools and the server's execute wrapper.                             *)
(*                                                                         *)
(* JavaScript values are tagged records: [t |-> "undefined"], "null",      *)
(* "NaN", "inf"/"-inf", [t |-> "num", n |-> k] (the number k / Den),       *)
(* [t |-> "str", s |-> <<chars>>], [t |-> "bool", b |-> ...],              *)
(* [t |-> "arr", items |-> <<...>>] and [t |-> "obj", f |-> function from  *)
(* the keys that are present to their values].                             *)
(***************************************************************************)
EXTENDS Integers, Sequences, FiniteSets, TLC

VARIABLES
    pgOptions,      \* pagination: the options handed to the normalizer
    pgNormalized,   \* pagination: result of normalizePagination(pgOptions)
    pgParams,       \* pagination: result of buildPaginationParams(pgOptions)
    errInput,       \* classifier: [error, toolName, fallbackMessage] handed to handleError
    errThrown,      \* classifier: what handleError threw
    pc,             \* invocation: "idle" | "awaiting" | "done"
    tool,           \* invocation: name of the registered tool being executed
    args,           \* invocation: the payload handed to the tool
    netCalls,       \* invocation: number of fetch() calls issued
    request,        \* invocation: the HTTP request in flight / last issued
    response,       \* invocation: the upstream response (Unset before it)
    outcome,        \* invocation: what the caller of the registered tool sees
    clientLog,      \* invocation: the lines BacklogClient.request has logged
    env,            \* startup: process.env, [baseUrl, apiKey]
    boot,           \* startup: off, starting, fatal (with the error) or serving
    client,         \* startup: the BacklogClient, or what its constructor threw
    registered,     \* startup: the names of the tools registered so far
    mapperName,         \* mapping: the response mapper applied ("none" before)
    entity,         \* mapping: the parsed raw entity handed to it
    shape,          \* mapping: the public shape it returned
    running         \* concurrency: for each invocation in flight its
                    \* [pc, tool, args, request, response, outcome]

vars == <<pgOptions, pgNormalized, pgParams, errInput, errThrown,
          pc, tool, args, netCalls, request, response, outcome, clientLog,
          env, boot, client, registered, mapperName, entity, shape,
          running>>

pgVars  == <<pgOptions, pgNormalized, pgParams>>
errVars == <<errInput, errThrown>>
invVars == <<pc, tool, args, netCalls, request, response, outcome,
            clientLog>>
bootVars == <<env, boot, client, registered>>
mapVars == <<mapperName, entity, shape>>
concVars == <<running>>

-----------------------------------------------------------------------------
(* Bounds of the model.                                                    *)

\* numbers are multiples of 1/Den
Den == 2
\* pagination inputs range over the numerators -MaxNum .. MaxNum
MaxNum == 5
\* upstream lists hold 0 .. MaxItems entities
MaxItems == 3

-----------------------------------------------------------------------------
(* JavaScript values.                                                      *)

Undefined == [t |-> "undefined"]
Null      == [t |-> "null"]
NaN       == [t |-> "NaN"]
PosInf    == [t |-> "inf"]
NegInf    == [t |-> "-inf"]
Unset     == [t |-> "unset"]        \* model only: "not computed yet"

NumV(n)  == [t |-> "num", n |-> n]           \* the number n / Den
IntV(i)  == [t |-> "num", n |-> i * Den]     \* the integer i
StrV(s)  == [t |-> "str", s |-> s]           \* s: a sequence of characters
BoolV(b) == [t |-> "bool", b |-> b]
ArrV(xs) == [t |-> "arr", items |-> xs]
ObjV(f)  == [t |-> "obj", f |-> f]

NoKeys == [k \in {} |-> Undefined]
EmptyObj == ObjV(NoKeys)

\* typeof v === 'number' (NaN and the infinities are numbers)
IsNumberType(v) == v.t \in {"num", "NaN", "inf", "-inf"}
\* Number.isFinite(v)
NumberIsFinite(v) == v.t = "num"
\* Number.isInteger(v)
IsInteger(v) == v.t = "num" /\ v.n % Den = 0
IsString(v) == v.t = "str"
IsObject(v) == v.t = "obj"
IsArray(v)  == v.t = "arr"

\* obj.key: undefined when the key is absent
Get(o, k) == IF o.t = "obj" /\ k \in DOMAIN o.f THEN o.f[k] ELSE Undefined
Keys(o) == DOMAIN o.f

\* Boolean(v)
Truthy(v) ==
    CASE v.t \in {"undefined", "null", "NaN"} -> FALSE
      [] v.t = "num"  -> v.n # 0
      [] v.t = "str"  -> Len(v.s) > 0
      [] v.t = "bool" -> v.b
      [] OTHER        -> TRUE

\* Math.floor on a finite number
MathFloor(v) == IntV(v.n \div Den)
\* Math.max on finite numbers
MathMax(a, b) == IF a.n >= b.n THEN a ELSE b

-----------------------------------------------------------------------------
(* utils/pagination.ts                                                     *)

\* as normalizePagination, without Math.floor
normalizePaginationNoFloor(options) ==
    IF ~Truthy(options) THEN Undefined
    ELSE LET offset == Get(options, "offset")
             limit  == Get(options, "limit")
         IN ObjV(
              (IF IsNumberType(offset) /\ NumberIsFinite(offset)
                 THEN "offset" :> MathMax(IntV(0), offset) ELSE NoKeys)
              @@
              (IF IsNumberType(limit) /\ NumberIsFinite(limit)
                 THEN "limit" :> MathMax(IntV(1), limit) ELSE NoKeys))

normalizePagination(options) ==
    IF ~Truthy(options) THEN Undefined
    ELSE LET offset == Get(options, "offset")
             limit  == Get(options, "limit")
         IN ObjV(
              (IF IsNumberType(offset) /\ NumberIsFinite(offset)
                 THEN "offset" :> MathMax(IntV(0), MathFloor(offset)) ELSE NoKeys)
              @@
              (IF IsNumberType(limit) /\ NumberIsFinite(limit)
                 THEN "limit" :> MathMax(IntV(1), MathFloor(limit)) ELSE NoKeys))

\* as buildPaginationParams, keeping the key limit and an empty object
buildPaginationParamsLimitKey(options) ==
    LET normalized == normalizePagination(options) IN
    IF ~Truthy(normalized) THEN Undefined
    ELSE LET params ==
                 (IF Get(normalized, "offset") # Undefined
                    THEN "offset" :> Get(normalized, "offset") ELSE NoKeys)
                 @@
                 (IF Get(normalized, "limit") # Undefined
                    THEN "limit" :> Get(normalized, "limit") ELSE NoKeys)
         IN ObjV(params)

buildPaginationParams(options) ==
    LET normalized == normalizePagination(options) IN
    IF ~Truthy(normalized) THEN Undefined
    ELSE LET params ==
                 (IF Get(normalized, "offset") # Undefined
                    THEN "offset" :> Get(normalized, "offset") ELSE NoKeys)
                 @@
                 (IF Get(normalized, "limit") # Undefined
                    THEN "count" :> Get(normalized, "limit") ELSE NoKeys)
         IN IF Cardinality(DOMAIN params) > 0 THEN ObjV(params) ELSE Undefined

-----------------------------------------------------------------------------
(* Text.  A JavaScript string is a sequence of characters, so that         *)
(* formatting a status into a message and matching it back out are real    *)
(* conversions.                                                            *)

DigitChars == <<"0", "1", "2", "3", "4", "5", "6", "7", "8", "9">>
UpperChars == <<"A", "B", "C", "D", "E", "F", "G", "H", "I", "J", "K", "L", "M",
                "N", "O", "P", "Q", "R", "S", "T", "U", "V", "W", "X", "Y", "Z">>
LowerChars == <<"a", "b", "c", "d", "e", "f", "g", "h", "i", "j", "k", "l", "m",
                "n", "o", "p", "q", "r", "s", "t", "u", "v", "w", "x", "y", "z">>
WhitespaceChars == {" ", "\t", "\n"}

IsDigit(c) == \E d \in 1..10 : DigitChars[d] = c
DigitValue(c) == (CHOOSE d \in 1..10 : DigitChars[d] = c) - 1
\* the character, lower-cased (the regular expression's i flag)
ToLower(c) ==
    IF \E i \in 1..26 : UpperChars[i] = c
      THEN LowerChars[CHOOSE i \in 1..26 : UpperChars[i] = c]
      ELSE c

\* String(n) for an integer n >= 0
RECURSIVE NatToChars(_)
NatToChars(n) ==
    IF n < 10 THEN <<DigitChars[n + 1]>>
    ELSE NatToChars(n \div 10) \o <<DigitChars[(n % 10) + 1]>>

\* String(v) for an integer-valued number v
NumberToString(v) ==
    IF v.n < 0 THEN <<"-">> \o NatToChars((0 - v.n) \div Den)
    ELSE NatToChars(v.n \div Den)

\* Number(chars) for a run of decimal digits
RECURSIVE DigitsToNat(_)
DigitsToNat(cs) ==
    IF cs = <<>> THEN 0
    ELSE 10 * DigitsToNat(SubSeq(cs, 1, Len(cs) - 1)) + DigitValue(cs[Len(cs)])

\* "RATE_LIMIT"
TxtRateLimitToken ==
    <<"R", "A", "T", "E", "_", "L", "I", "M", "I", "T">>

\* "Backlog API rate limit exceeded."
TxtRateLimitExceeded ==
    <<"B", "a", "c", "k", "l", "o", "g", " ", "A", "P", "I", " ", "r", "a",
      "t", "e", " ", "l", "i", "m", "i", "t", " ", "e", "x", "c", "e", "e",
      "d", "e", "d", ".">>

\* "Invalid parameters provided for Backlog tool."
TxtInvalidParameters ==
    <<"I", "n", "v", "a", "l", "i", "d", " ", "p", "a", "r", "a", "m", "e",
      "t", "e", "r", "s", " ", "p", "r", "o", "v", "i", "d", "e", "d", " ",
      "f", "o", "r", " ", "B", "a", "c", "k", "l", "o", "g", " ", "t", "o",
      "o", "l", ".">>

\* "Backlog authentication failed."
TxtAuthenticationFailed ==
    <<"B", "a", "c", "k", "l", "o", "g", " ", "a", "u", "t", "h", "e", "n",
      "t", "i", "c", "a", "t", "i", "o", "n", " ", "f", "a", "i", "l", "e",
      "d", ".">>

\* "Backlog permission denied."
TxtPermissionDenied ==
    <<"B", "a", "c", "k", "l", "o", "g", " ", "p", "e", "r", "m", "i", "s",
      "s", "i", "o", "n", " ", "d", "e", "n", "i", "e", "d", ".">>

\* "Requested Backlog resource was not found."
TxtNotFound ==
    <<"R", "e", "q", "u", "e", "s", "t", "e", "d", " ", "B", "a", "c", "k",
      "l", "o", "g", " ", "r", "e", "s", "o", "u", "r", "c", "e", " ", "w",
      "a", "s", " ", "n", "o", "t", " ", "f", "o", "u", "n", "d", ".">>

\* "Backlog service encountered an internal error."
TxtInternalError ==
    <<"B", "a", "c", "k", "l", "o", "g", " ", "s", "e", "r", "v", "i", "c",
      "e", " ", "e", "n", "c", "o", "u", "n", "t", "e", "r", "e", "d", " ",
      "a", "n", " ", "i", "n", "t", "e", "r", "n", "a", "l", " ", "e", "r",
      "r", "o", "r", ".">>

\* "Unknown Backlog client error"
TxtUnknownClientError ==
    <<"U", "n", "k", "n", "o", "w", "n", " ", "B", "a", "c", "k", "l", "o",
      "g", " ", "c", "l", "i", "e", "n", "t", " ", "e", "r", "r", "o", "r">>

\* "Backlog request failed with status "
TxtRequestFailedWithStatus ==
    <<"B", "a", "c", "k", "l", "o", "g", " ", "r", "e", "q", "u", "e", "s",
      "t", " ", "f", "a", "i", "l", "e", "d", " ", "w", "i", "t", "h", " ",
      "s", "t", "a", "t", "u", "s", " ">>

\* "Failed to execute Backlog request"
TxtFailedToExecute ==
    <<"F", "a", "i", "l", "e", "d", " ", "t", "o", " ", "e", "x", "e", "c",
      "u", "t", "e", " ", "B", "a", "c", "k", "l", "o", "g", " ", "r", "e",
      "q", "u", "e", "s", "t">>

\* "Failed to parse Backlog response as JSON."
TxtFailedToParse ==
    <<"F", "a", "i", "l", "e", "d", " ", "t", "o", " ", "p", "a", "r", "s",
      "e", " ", "B", "a", "c", "k", "l", "o", "g", " ", "r", "e", "s", "p",
      "o", "n", "s", "e", " ", "a", "s", " ", "J", "S", "O", "N", ".">>

-----------------------------------------------------------------------------
(* utils/errors.ts                                                         *)

UNAUTHENTICATED == -32002
PERMISSION_DENIED == -32003
UNAVAILABLE == -32004
\* ErrorCode.InvalidParams and ErrorCode.InternalError of the MCP SDK
InvalidParams == -32602
InternalError == -32603

RATE_LIMIT_TOKEN == StrV(TxtRateLimitToken)

\* new BacklogError(message, {status, cause, details})
BacklogError(message, status, cause, details) ==
    [t |-> "BacklogError", message |-> message, status |-> status,
     cause |-> cause, details |-> details]

\* new Error(message) and its subclasses other than the ones below
ErrorV(message) == [t |-> "Error", message |-> message]
\* new ZodError(issues)
ZodError(issues) == [t |-> "ZodError", issues |-> issues]
\* new McpError(code, message, data)
McpError(code, message, data) ==
    [t |-> "McpError", code |-> code, message |-> message, data |-> data]

\* error instanceof Error
InstanceOfError(error) == error.t \in {"Error", "BacklogError", "ZodError", "McpError"}

normalizeError(error, fallback) ==
    IF error.t = "BacklogError" THEN error
    ELSE IF InstanceOfError(error)
      THEN BacklogError(error.message, Undefined, error, Undefined)
    ELSE IF fallback # Undefined
      THEN BacklogError(fallback.message, Undefined, fallback, error)
    ELSE BacklogError(StrV(TxtUnknownClientError), Undefined, Undefined, error)

\* as buildErrorMessage, without the prefix
buildErrorMessageBare(message, toolName) == message

buildErrorMessage(message, toolName) ==
    IF Truthy(toolName)
      THEN StrV(<<"[">> \o toolName.s \o <<"]", " ">> \o message.s)
      ELSE message

\* whether /status\s+(\d{3})/i matches the characters cs starting at index i
StatusWord == <<"s", "t", "a", "t", "u", "s">>
\* the first index after i + 5 that holds no whitespace (Len + 1 when none)
AfterWhitespace(cs, i) ==
    CHOOSE k \in (i + 6)..(Len(cs) + 1) :
        /\ \A j \in (i + 6)..(k - 1) : cs[j] \in WhitespaceChars
        /\ (k <= Len(cs) => cs[k] \notin WhitespaceChars)
StatusMatchesAt(cs, i) ==
    /\ i + 5 <= Len(cs)
    /\ \A j \in 1..6 : ToLower(cs[i + j - 1]) = StatusWord[j]
    /\ LET k == AfterWhitespace(cs, i) IN
         /\ k > i + 6
         /\ k + 2 <= Len(cs)
         /\ \A j \in k..(k + 2) : IsDigit(cs[j])

\* message.match(/status\s+(\d{3})/i): Number(match[1]), or Undefined
matchStatus(cs) ==
    IF \E i \in 1..Len(cs) : StatusMatchesAt(cs, i)
      THEN LET i == CHOOSE i \in 1..Len(cs) :
                      /\ StatusMatchesAt(cs, i)
                      /\ \A h \in 1..(i - 1) : ~StatusMatchesAt(cs, h)
               k == AfterWhitespace(cs, i)
           IN IntV(DigitsToNat(SubSeq(cs, k, k + 2)))
      ELSE Undefined

\* status === n for an integer n
StatusIs(status, n) == status = IntV(n)
\* status >= n, status < n on numbers
StatusGte(status, n) ==
    \/ status.t = "num" /\ status.n >= n * Den
    \/ status.t = "inf"
StatusLt(status, n) ==
    \/ status.t = "num" /\ status.n < n * Den
    \/ status.t = "-inf"

\* as classify, with the 4xx range tested before the 429 rule
classifyRangeFirst(status, normalized, toolName, data) ==
    IF StatusIs(status, 401)
      THEN McpError(UNAUTHENTICATED,
                    buildErrorMessage(StrV(TxtAuthenticationFailed), toolName), data)
    ELSE IF StatusIs(status, 403)
      THEN McpError(PERMISSION_DENIED,
                    buildErrorMessage(StrV(TxtPermissionDenied), toolName), data)
    ELSE IF StatusIs(status, 404)
      THEN McpError(InvalidParams,
                    buildErrorMessage(StrV(TxtNotFound), toolName), data)
    ELSE IF status # Undefined /\ StatusGte(status, 400) /\ StatusLt(status, 500)
      THEN McpError(InvalidParams,
                    buildErrorMessage(normalized.message, toolName), data)
    ELSE IF StatusIs(status, 429)
      THEN McpError(UNAVAILABLE,
                    buildErrorMessage(StrV(TxtRateLimitExceeded), toolName), data)
    ELSE IF status # Undefined /\ StatusGte(status, 500)
      THEN McpError(InternalError,
                    buildErrorMessage(StrV(TxtInternalError), toolName), data)
    ELSE McpError(InternalError,
                  buildErrorMessage(normalized.message, toolName), data)

\* the class handleError picks once the status is known (lines 130-182)
classify(status, normalized, toolName, data) ==
    IF StatusIs(status, 401)
      THEN McpError(UNAUTHENTICATED,
                    buildErrorMessage(StrV(TxtAuthenticationFailed), toolName), data)
    ELSE IF StatusIs(status, 403)
      THEN McpError(PERMISSION_DENIED,
                    buildErrorMessage(StrV(TxtPermissionDenied), toolName), data)
    ELSE IF StatusIs(status, 404)
      THEN McpError(InvalidParams,
                    buildErrorMessage(StrV(TxtNotFound), toolName), data)
    ELSE IF StatusIs(status, 429)
      THEN McpError(UNAVAILABLE,
                    buildErrorMessage(StrV(TxtRateLimitExceeded), toolName), data)
    ELSE IF status # Undefined /\ StatusGte(status, 400) /\ StatusLt(status, 500)
      THEN McpError(InvalidParams,
                    buildErrorMessage(normalized.message, toolName), data)
    ELSE IF status # Undefined /\ StatusGte(status, 500)
      THEN McpError(InternalError,
                    buildErrorMessage(StrV(TxtInternalError), toolName), data)
    ELSE McpError(InternalError,
                  buildErrorMessage(normalized.message, toolName), data)

\* as handleError, with the status written in the message preferred to the
\* one attached
handleErrorTextFirst(error, toolName, fallbackMessage) ==
    IF error.t = "McpError" THEN error
    ELSE IF error = RATE_LIMIT_TOKEN
      THEN McpError(UNAVAILABLE,
                    buildErrorMessage(StrV(TxtRateLimitExceeded), toolName),
                    ObjV("status" :> IntV(429)))
    ELSE IF error.t = "ZodError"
      THEN McpError(InvalidParams,
                    buildErrorMessage(StrV(TxtInvalidParameters), toolName),
                    ObjV("issues" :> ArrV(error.issues)))
    ELSE
      LET fallbackError ==
              IF fallbackMessage # Undefined
                THEN BacklogError(fallbackMessage, Undefined, Undefined, Undefined)
                ELSE Undefined
          normalized == normalizeError(error, fallbackError)
          status ==
              IF IsString(normalized.message)
                   /\ matchStatus(normalized.message.s) # Undefined
                THEN matchStatus(normalized.message.s)
                ELSE normalized.status
          data == ObjV(
              (IF status # Undefined THEN "status" :> status ELSE NoKeys)
              @@ (IF normalized.details # Undefined
                    THEN "details" :> normalized.details ELSE NoKeys)
              @@ (IF normalized.cause # Undefined
                    THEN "cause" :> normalized.cause ELSE NoKeys))
      IN classify(status, normalized, toolName, data)

\* handleError(error, {toolName, fallbackMessage}): the value it throws
handleError(error, toolName, fallbackMessage) ==
    IF error.t = "McpError" THEN error
    ELSE IF error = RATE_LIMIT_TOKEN
      THEN McpError(UNAVAILABLE,
                    buildErrorMessage(StrV(TxtRateLimitExceeded), toolName),
                    ObjV("status" :> IntV(429)))
    ELSE IF error.t = "ZodError"
      THEN McpError(InvalidParams,
                    buildErrorMessage(StrV(TxtInvalidParameters), toolName),
                    ObjV("issues" :> ArrV(error.issues)))
    ELSE
      LET fallbackError ==
              IF fallbackMessage # Undefined
                THEN BacklogError(fallbackMessage, Undefined, Undefined, Undefined)
                ELSE Undefined
          normalized == normalizeError(error, fallbackError)
          status ==
              IF normalized.status = Undefined /\ IsString(normalized.message)
                THEN matchStatus(normalized.message.s)
                ELSE normalized.status
          data == ObjV(
              (IF status # Undefined THEN "status" :> status ELSE NoKeys)
              @@ (IF normalized.details # Undefined
                    THEN "details" :> normalized.details ELSE NoKeys)
              @@ (IF normalized.cause # Undefined
                    THEN "cause" :> normalized.cause ELSE NoKeys))
      IN classify(status, normalized, toolName, data)

-----------------------------------------------------------------------------
(* backlogClient.ts: the request executor.                                 *)

\* "fetch failed"
TxtFetchFailed ==
    <<"f", "e", "t", "c", "h", " ", "f", "a", "i", "l", "e", "d">>

\* "Unexpected token < in JSON at position 0"
TxtUnexpectedToken ==
    <<"U", "n", "e", "x", "p", "e", "c", "t", "e", "d", " ", "t", "o", "k",
      "e", "n", " ", "<", " ", "i", "n", " ", "J", "S", "O", "N", " ", "a",
      "t", " ", "p", "o", "s", "i", "t", "i", "o", "n", " ", "0">>

\* "secret-key"
TxtApiKey ==
    <<"s", "e", "c", "r", "e", "t", "-", "k", "e", "y">>

\* "application/json"
TxtApplicationJson ==
    <<"a", "p", "p", "l", "i", "c", "a", "t", "i", "o", "n", "/",
      "j", "s", "o", "n">>

\* "Backlog base URL is required."
TxtBaseUrlRequired ==
    <<"B", "a", "c", "k", "l", "o", "g", " ", "b", "a", "s", "e",
      " ", "U", "R", "L", " ", "i", "s", " ", "r", "e", "q", "u",
      "i", "r", "e", "d", ".">>

\* "Backlog API key is required."
TxtApiKeyRequired ==
    <<"B", "a", "c", "k", "l", "o", "g", " ", "A", "P", "I", " ",
      "k", "e", "y", " ", "i", "s", " ", "r", "e", "q", "u", "i",
      "r", "e", "d", ".">>

\* "Backlog API key is required to authenticate requests."
TxtApiKeyRequiredToAuthenticate ==
    <<"B", "a", "c", "k", "l", "o", "g", " ", "A", "P", "I", " ",
      "k", "e", "y", " ", "i", "s", " ", "r", "e", "q", "u", "i",
      "r", "e", "d", " ", "t", "o", " ", "a", "u", "t", "h", "e",
      "n", "t", "i", "c", "a", "t", "e", " ", "r", "e", "q", "u",
      "e", "s", "t", "s", ".">>

\* "Unexpected end of JSON input"
TxtUnexpectedEnd ==
    <<"U", "n", "e", "x", "p", "e", "c", "t", "e", "d", " ", "e",
      "n", "d", " ", "o", "f", " ", "J", "S", "O", "N", " ", "i",
      "n", "p", "u", "t">>

\* "http://b"
TxtBaseUrl ==
    <<"h", "t", "t", "p", ":", "/", "/", "b">>

Returned(value) == [t |-> "return", value |-> value]
Thrown(error)   == [t |-> "throw", error |-> error]

\* String.prototype.trim
RECURSIVE TrimStart(_)
TrimStart(cs) ==
    IF cs # <<>> /\ Head(cs) \in WhitespaceChars THEN TrimStart(Tail(cs)) ELSE cs
RECURSIVE TrimEnd(_)
TrimEnd(cs) ==
    IF cs # <<>> /\ cs[Len(cs)] \in WhitespaceChars
      THEN TrimEnd(SubSeq(cs, 1, Len(cs) - 1)) ELSE cs
Trim(cs) == TrimEnd(TrimStart(cs))

\* normalizeBaseUrl: trimmed, and given a trailing slash unless empty
normalizeBaseUrl(baseUrl) ==
    LET trimmed == Trim(baseUrl) IN
    IF trimmed = <<>> THEN trimmed
    ELSE IF trimmed[Len(trimmed)] = "/" THEN trimmed
    ELSE trimmed \o <<"/">>

\* new BacklogClient(config): the client, or the Error the constructor throws
BacklogClientNew(config) ==
    LET baseUrl == normalizeBaseUrl(config.baseUrl.s)
        apiKey == IF config.apiKey \in {Undefined, Null} THEN StrV(<<>>)
                  ELSE config.apiKey
    IN IF baseUrl = <<>> THEN Thrown(ErrorV(StrV(TxtBaseUrlRequired)))
       ELSE IF ~Truthy(apiKey) THEN Thrown(ErrorV(StrV(TxtApiKeyRequired)))
       ELSE Returned([t |-> "client", baseUrl |-> StrV(baseUrl), apiKey |-> apiKey])

\* the configured API key (this.apiKey) and base URL (this.baseUrl)
ConfigApiKey == client.apiKey
ConfigBaseUrl == client.baseUrl.s

\* the URL parser on an absolute URL scheme://host/path: the index of the
\* slash that starts the path (Len + 1 when the URL ends with the host)
PathStart(url) ==
    LET hostStart == CHOOSE i \in 1..Len(url) :
                        /\ i + 2 <= Len(url)
                        /\ url[i] = ":" /\ url[i + 1] = "/" /\ url[i + 2] = "/"
                        /\ \A h \in 1..(i - 1) : url[h] # ":"
        slashes == {i \in (hostStart + 3)..Len(url) : url[i] = "/"}
    IN IF slashes = {} THEN Len(url) + 1
       ELSE CHOOSE i \in slashes : \A j \in slashes : i <= j
UrlOrigin(url) == SubSeq(url, 1, PathStart(url) - 1)
UrlPath(url) ==
    IF PathStart(url) > Len(url) THEN <<"/">>
    ELSE SubSeq(url, PathStart(url), Len(url))
\* a path up to and including its last slash
DirectoryOf(path) ==
    SubSeq(path, 1, CHOOSE i \in 1..Len(path) :
                      /\ path[i] = "/"
                      /\ \A j \in (i + 1)..Len(path) : path[j] # "/")
\* the URL parser's encoding of the characters of a path
RECURSIVE PathEncoded(_)
PathEncoded(cs) ==
    IF cs = <<>> THEN <<>>
    ELSE (IF Head(cs) = " " THEN <<"%", "2", "0">> ELSE <<Head(cs)>>)
         \o PathEncoded(Tail(cs))
\* new URL(relative, base).href without the query: a relative reference
\* that starts with a slash replaces the base's path, any other one replaces
\* what follows the last slash of the base's path
ResolveUrl(relative, base) ==
    IF relative # <<>> /\ Head(relative) = "/"
      THEN UrlOrigin(base) \o PathEncoded(relative)
      ELSE UrlOrigin(base) \o DirectoryOf(UrlPath(base)) \o PathEncoded(relative)

\* as sanitizedPath, with the leading slash kept
sanitizedPathKept(path) == path

\* path.startsWith('/') ? path.slice(1) : path
sanitizedPath(path) ==
    IF path # <<>> /\ Head(path) = "/" THEN Tail(path) ELSE path

\* utils/auth.ts createAuthHeaders: the header, or the Error it throws
createAuthHeaders(config) ==
    IF ~Truthy(config.apiKey)
      THEN Thrown(ErrorV(StrV(TxtApiKeyRequiredToAuthenticate)))
      ELSE Returned("X-API-Key" :> config.apiKey)

\* model only: a response body that is not JSON, with the error
\* response.json() rejects with
Unparsable(error) == [t |-> "unparsable", error |-> error]

\* String(v) inside a template literal or for a query value
ToStringChars(v) ==
    CASE v.t = "str" -> v.s
      [] v.t = "num" -> NumberToString(v)
      [] v.t = "bool" -> IF v.b THEN <<"t", "r", "u", "e">>
                                ELSE <<"f", "a", "l", "s", "e">>
      [] v.t = "undefined" -> <<"u", "n", "d", "e", "f", "i", "n", "e", "d">>

\* as buildRequest, with a query entry named apiKey kept over the configured key
buildRequestCallerKeyWins(method, path, payload, query) ==
    [method |-> method,
     path |-> path,
     url |-> ResolveUrl(sanitizedPath(path), ConfigBaseUrl),
     headers |-> ObjV(("Accept" :> StrV(TxtApplicationJson))
                      @@ ("Content-Type" :> StrV(TxtApplicationJson))
                      @@ createAuthHeaders([apiKey |-> ConfigApiKey]).value),
     query |-> ObjV((IF IsObject(query)
                       THEN [k \in {h \in Keys(query) :
                                      query.f[h].t \notin {"undefined", "null"}}
                               |-> StrV(ToStringChars(query.f[k]))]
                       ELSE NoKeys)
                    @@ ("apiKey" :> ConfigApiKey)),
     body |-> payload]

\* the request handed to fetch: buildUrl resolves the path without its
\* leading slash against the base URL (url, the query apart) and sets every
\* query pair that is neither undefined nor null, as a string, then apiKey
\* (query); the headers carry the key as well; the body is the payload unless
\* it is undefined
buildRequest(method, path, payload, query) ==
    [method |-> method,
     path |-> path,
     url |-> ResolveUrl(sanitizedPath(path), ConfigBaseUrl),
     headers |-> ObjV(("Accept" :> StrV(TxtApplicationJson))
                      @@ ("Content-Type" :> StrV(TxtApplicationJson))
                      @@ createAuthHeaders([apiKey |-> ConfigApiKey]).value),
     query |-> ObjV(("apiKey" :> ConfigApiKey) @@
                    (IF IsObject(query)
                       THEN [k \in {h \in Keys(query) :
                                      query.f[h].t \notin {"undefined", "null"}}
                               |-> StrV(ToStringChars(query.f[k]))]
                       ELSE NoKeys)),
     body |-> payload]

\* the message BacklogClient.request gives a failed response
RequestFailedMessage(status) ==
    StrV(TxtRequestFailedWithStatus \o NatToChars(status))

\* response.ok
ResponseOk(status) == status >= 200 /\ status <= 299

\* as requestOutcome, with 429 treated like any other failed status
requestOutcomeNoSentinel(resp) ==
    IF ~ResponseOk(resp.status)
      THEN Thrown(ErrorV(RequestFailedMessage(resp.status)))
    ELSE IF resp.status = 204 \/ resp.status = 205 THEN Returned(Undefined)
    ELSE IF resp.body.t = "unparsable"
      THEN (IF InstanceOfError(resp.body.error) THEN Thrown(resp.body.error)
            ELSE Thrown(ErrorV(StrV(TxtFailedToParse))))
    ELSE Returned(resp.body)

\* as requestOutcome, with the status left out of the message
requestOutcomeNoStatus(resp) ==
    IF resp.status = 429 THEN Thrown(RATE_LIMIT_TOKEN)
    ELSE IF ~ResponseOk(resp.status)
      THEN Thrown(ErrorV(StrV(TxtRequestFailedWithStatus)))
    ELSE IF resp.status = 204 \/ resp.status = 205 THEN Returned(Undefined)
    ELSE IF resp.body.t = "unparsable"
      THEN (IF InstanceOfError(resp.body.error) THEN Thrown(resp.body.error)
            ELSE Thrown(ErrorV(StrV(TxtFailedToParse))))
    ELSE Returned(resp.body)

\* as requestOutcome, with a parse failure swallowed and the body of a 204
\* or 205 parsed
requestOutcomeParsesAlways(resp) ==
    IF resp.status = 429 THEN Thrown(RATE_LIMIT_TOKEN)
    ELSE IF ~ResponseOk(resp.status)
      THEN Thrown(ErrorV(RequestFailedMessage(resp.status)))
    ELSE IF resp.body.t = "unparsable" THEN Returned(Undefined)
    ELSE Returned(resp.body)

\* as requestOutcome, without the tests of the status
requestOutcomeAnyStatus(resp) ==
    IF resp.status = 204 \/ resp.status = 205 THEN Returned(Undefined)
    ELSE IF resp.body.t = "unparsable"
      THEN (IF InstanceOfError(resp.body.error) THEN Thrown(resp.body.error)
            ELSE Thrown(ErrorV(StrV(TxtFailedToParse))))
    ELSE Returned(resp.body)

\* what BacklogClient.request does with the response fetch resolved to
requestOutcome(resp) ==
    IF resp.status = 429 THEN Thrown(RATE_LIMIT_TOKEN)
    ELSE IF ~ResponseOk(resp.status)
      THEN Thrown(ErrorV(RequestFailedMessage(resp.status)))
    ELSE IF resp.status = 204 \/ resp.status = 205 THEN Returned(Undefined)
    ELSE IF resp.body.t = "unparsable"
      THEN (IF InstanceOfError(resp.body.error) THEN Thrown(resp.body.error)
            ELSE Thrown(ErrorV(StrV(TxtFailedToParse))))
    ELSE Returned(resp.body)

\* what BacklogClient.request does when fetch rejects with error
requestRejected(error) ==
    IF error = RATE_LIMIT_TOKEN THEN Thrown(error)
    ELSE IF InstanceOfError(error) THEN Thrown(error)
    ELSE Thrown(normalizeError(error,
            BacklogError(StrV(TxtFailedToExecute), Undefined, Undefined, Undefined)))

-----------------------------------------------------------------------------
(* Paths.                                                                  *)

UnreservedChars ==
    {UpperChars[i] : i \in 1..26} \cup {LowerChars[i] : i \in 1..26}
      \cup {DigitChars[i] : i \in 1..10}
      \cup {"-", "_", ".", "!", "~", "*", "'", "(", ")"}

\* the percent-encoding of the other characters the model uses
PercentEncoded(c) ==
    CASE c = " " -> <<"%", "2", "0">>
      [] c = "/" -> <<"%", "2", "F">>
      [] c = "?" -> <<"%", "3", "F">>
      [] c = "#" -> <<"%", "2", "3">>
      [] c = "%" -> <<"%", "2", "5">>

RECURSIVE encodeURIComponent(_)
encodeURIComponent(cs) ==
    IF cs = <<>> THEN <<>>
    ELSE (IF Head(cs) \in UnreservedChars THEN <<Head(cs)>> ELSE PercentEncoded(Head(cs)))
         \o encodeURIComponent(Tail(cs))

TxtProjects   == <<"p", "r", "o", "j", "e", "c", "t", "s">>
TxtIssues     == <<"i", "s", "s", "u", "e", "s">>
TxtComments   == <<"c", "o", "m", "m", "e", "n", "t", "s">>
TxtAttachments == <<"a", "t", "t", "a", "c", "h", "m", "e", "n", "t", "s">>
TxtActivities == <<"a", "c", "t", "i", "v", "i", "t", "i", "e", "s">>
TxtWikis      == <<"w", "i", "k", "i", "s">>
TxtStatus     == <<"s", "t", "a", "t", "u", "s">>

\* "/a/b/c" from <<a, b, c>>
RECURSIVE PathOf(_)
PathOf(segments) ==
    IF segments = <<>> THEN <<>>
    ELSE <<"/">> \o Head(segments) \o PathOf(Tail(segments))

-----------------------------------------------------------------------------
(* Schemas of the upstream entities (zod) and the response mappers.        *)

\* one zod issue, by the path of the field it is about
Issue(path) == [t |-> "issue", path |-> path]
Check(path, ok) == [path |-> path, ok |-> ok]
\* the issues of the checks that failed, in schema order
IssuesOf(checks) ==
    LET failed == SelectSeq(checks, LAMBDA c : ~c.ok)
    IN [i \in 1..Len(failed) |-> Issue(failed[i].path)]

\* z.number(), z.string(), .optional(), .nullable().optional()
zNumber(v) == v.t \in {"num", "inf", "-inf"}
zString(v) == v.t = "str"
zOptNumber(v) == v = Undefined \/ zNumber(v)
zOptString(v) == v = Undefined \/ zString(v)
zNullishString(v) == v \in {Undefined, Null} \/ zString(v)

\* an object schema with id: z.number().optional() and the string keys
\* z.string().optional(), made .nullish(): backlogUserSchema (id, userId,
\* name), backlogIssueStatusSchema (id, name), backlogProjectSchema (id,
\* projectKey, name), the attachments' backlogUserSchema (id, name)
zNullishRelation(v, stringKeys) ==
    \/ v \in {Undefined, Null}
    \/ /\ IsObject(v)
       /\ zOptNumber(Get(v, "id"))
       /\ \A k \in stringKeys : zOptString(Get(v, k))
zNullishUser(v) == zNullishRelation(v, {"userId", "name"})
zNullishStatus(v) == zNullishRelation(v, {"name"})
zNullishProject(v) == zNullishRelation(v, {"projectKey", "name"})
\* tags: z.array(backlogWikiTagSchema).optional()
zOptTags(v) ==
    \/ v = Undefined
    \/ /\ IsArray(v)
       /\ \A i \in 1..Len(v.items) :
            /\ IsObject(v.items[i])
            /\ zOptNumber(Get(v.items[i], "id"))
            /\ zOptString(Get(v.items[i], "name"))

\* the field checks of backlogIssueSchema, backlogCommentSchema,
\* backlogAttachmentSchema, backlogWikiSchema and backlogActivitySchema
EntityChecks(kind, v) ==
    CASE kind = "issue" ->
           <<Check("id", zNumber(Get(v, "id"))),
             Check("issueKey", zString(Get(v, "issueKey"))),
             Check("summary", zString(Get(v, "summary"))),
             Check("description", zNullishString(Get(v, "description"))),
             Check("status", zNullishStatus(Get(v, "status"))),
             Check("assignee", zNullishUser(Get(v, "assignee"))),
             Check("updated", zNullishString(Get(v, "updated")))>>
      [] kind = "comment" ->
           <<Check("id", zNumber(Get(v, "id"))),
             Check("content", zNullishString(Get(v, "content"))),
             Check("createdUser", zNullishUser(Get(v, "createdUser"))),
             Check("created", zNullishString(Get(v, "created"))),
             Check("updated", zNullishString(Get(v, "updated")))>>
      [] kind = "attachment" ->
           <<Check("id", zNumber(Get(v, "id"))),
             Check("name", zString(Get(v, "name"))),
             Check("size", zOptNumber(Get(v, "size"))),
             Check("createdUser", zNullishStatus(Get(v, "createdUser"))),
             Check("created", zNullishString(Get(v, "created")))>>
      [] kind = "wiki" ->
           <<Check("id", zNumber(Get(v, "id"))),
             Check("projectId", zOptNumber(Get(v, "projectId"))),
             Check("name", zString(Get(v, "name"))),
             Check("content", zNullishString(Get(v, "content"))),
             Check("createdUser", zNullishUser(Get(v, "createdUser"))),
             Check("updatedUser", zNullishUser(Get(v, "updatedUser"))),
             Check("created", zNullishString(Get(v, "created"))),
             Check("updated", zNullishString(Get(v, "updated"))),
             Check("tags", zOptTags(Get(v, "tags")))>>
      [] kind = "activity" ->
           <<Check("id", zNumber(Get(v, "id"))),
             Check("type", zOptNumber(Get(v, "type"))),
             Check("project", zNullishProject(Get(v, "project"))),
             Check("createdUser", zNullishUser(Get(v, "createdUser"))),
             Check("created", zNullishString(Get(v, "created")))>>

\* schema.parse(v) for one entity: its issues (none when v is valid)
EntityIssues(kind, v) ==
    IF ~IsObject(v) THEN <<Issue("(root)")>> ELSE IssuesOf(EntityChecks(kind, v))

RECURSIVE ItemsIssues(_, _)
ItemsIssues(kind, items) ==
    IF items = <<>> THEN <<>>
    ELSE EntityIssues(kind, Head(items)) \o ItemsIssues(kind, Tail(items))

\* z.array(schema).parse(v): its issues
ListIssues(kind, v) ==
    IF ~IsArray(v) THEN <<Issue("(root)")>> ELSE ItemsIssues(kind, v.items)

\* as OrNull, without the ?? null
OrSame(v) == v

\* v ?? null
OrNull(v) == IF v \in {Undefined, Null} THEN Null ELSE v
\* typeof v === 'number' ? v : null
NumberOrNull(v) == IF IsNumberType(v) THEN v ELSE Null
\* relation?.name ?? null
NameOrNull(relation) ==
    IF relation \in {Undefined, Null} THEN Null ELSE OrNull(Get(relation, "name"))

\* toUserInfo (wiki.ts, activities.ts) and the createdBy of toAttachmentInfo
toUserInfo(user) ==
    IF Truthy(user)
      THEN ObjV(("id" :> NumberOrNull(Get(user, "id")))
                @@ ("name" :> OrNull(Get(user, "name"))))
      ELSE Null
\* the author of toCommentInfo
toAuthor(user) ==
    IF Truthy(user)
      THEN ObjV(("id" :> OrNull(Get(user, "id")))
                @@ ("name" :> OrNull(Get(user, "name"))))
      ELSE Null
toProjectInfo(project) ==
    IF Truthy(project)
      THEN ObjV(("id" :> NumberOrNull(Get(project, "id")))
                @@ ("key" :> OrNull(Get(project, "projectKey")))
                @@ ("name" :> OrNull(Get(project, "name"))))
      ELSE Null
toDetails(content) ==
    IF ~Truthy(content) \/ ~IsObject(content) THEN EmptyObj ELSE content
\* tag?.name?.trim() of every tag, keeping the non-empty ones
RECURSIVE TagNames(_)
TagNames(tags) ==
    IF tags = <<>> THEN <<>>
    ELSE LET name == Get(Head(tags), "name")
             trimmed == IF IsString(name) THEN Trim(name.s) ELSE <<>>
         IN (IF Len(trimmed) > 0 THEN <<StrV(trimmed)>> ELSE <<>>)
            \o TagNames(Tail(tags))
toTagNames(wiki) ==
    LET tags == Get(wiki, "tags")
    IN ArrV(IF tags \in {Undefined, Null} THEN <<>> ELSE TagNames(tags.items))

toIssueListItem(issue) ==
    ObjV(("id" :> Get(issue, "id")) @@ ("issueKey" :> Get(issue, "issueKey"))
         @@ ("summary" :> Get(issue, "summary"))
         @@ ("status" :> NameOrNull(Get(issue, "status")))
         @@ ("assignee" :> NameOrNull(Get(issue, "assignee")))
         @@ ("updated" :> OrNull(Get(issue, "updated"))))
toIssueDetails(issue) ==
    ObjV(("id" :> Get(issue, "id")) @@ ("issueKey" :> Get(issue, "issueKey"))
         @@ ("summary" :> Get(issue, "summary"))
         @@ ("description" :> OrNull(Get(issue, "description")))
         @@ ("status" :> NameOrNull(Get(issue, "status")))
         @@ ("assignee" :> NameOrNull(Get(issue, "assignee"))))
toCommentInfo(comment) ==
    ObjV(("id" :> Get(comment, "id"))
         @@ ("content" :> OrNull(Get(comment, "content")))
         @@ ("author" :> toAuthor(Get(comment, "createdUser")))
         @@ ("created" :> OrNull(Get(comment, "created")))
         @@ ("updated" :> OrNull(Get(comment, "updated"))))
toAttachmentInfo(attachment) ==
    ObjV(("id" :> Get(attachment, "id")) @@ ("name" :> Get(attachment, "name"))
         @@ ("size" :> NumberOrNull(Get(attachment, "size")))
         @@ ("created" :> OrNull(Get(attachment, "created")))
         @@ ("createdBy" :> toUserInfo(Get(attachment, "createdUser"))))
toWikiSummary(wiki) ==
    ObjV(("id" :> Get(wiki, "id"))
         @@ ("projectId" :> NumberOrNull(Get(wiki, "projectId")))
         @@ ("name" :> Get(wiki, "name"))
         @@ ("updated" :> OrNull(Get(wiki, "updated")))
         @@ ("tags" :> toTagNames(wiki)))
toWikiDetails(wiki) ==
    ObjV(("id" :> Get(wiki, "id"))
         @@ ("projectId" :> NumberOrNull(Get(wiki, "projectId")))
         @@ ("name" :> Get(wiki, "name"))
         @@ ("content" :> OrNull(Get(wiki, "content")))
         @@ ("created" :> OrNull(Get(wiki, "created")))
         @@ ("updated" :> OrNull(Get(wiki, "updated")))
         @@ ("createdBy" :> toUserInfo(OrNull(Get(wiki, "createdUser"))))
         @@ ("updatedBy" :> toUserInfo(OrNull(Get(wiki, "updatedUser"))))
         @@ ("tags" :> toTagNames(wiki)))
toActivityInfo(activity) ==
    ObjV(("id" :> Get(activity, "id"))
         @@ ("type" :> NumberOrNull(Get(activity, "type")))
         @@ ("project" :> toProjectInfo(OrNull(Get(activity, "project"))))
         @@ ("created" :> OrNull(Get(activity, "created")))
         @@ ("createdBy" :> toUserInfo(OrNull(Get(activity, "createdUser"))))
         @@ ("details" :> toDetails(Get(activity, "content"))))

\* items.map(mapper)
MapItems(items, mapper(_)) == [i \in 1..Len(items) |-> mapper(items[i])]

-----------------------------------------------------------------------------
(* The tools: input schemas, the request each one issues, and what each    *)
(* one makes of the client's answer.                                       *)

\* z.number().int().positive() and its .optional()
zPositiveInt(v) == IsInteger(v) /\ v.n > 0
zOptPositiveInt(v) == v = Undefined \/ zPositiveInt(v)
\* z.number().int().min(0).optional()
zOptNonNegativeInt(v) == v = Undefined \/ (IsInteger(v) /\ v.n >= 0)
\* z.string().trim().min(1) and its .optional()
zTrimmedNonEmpty(v) == IsString(v) /\ Len(Trim(v.s)) >= 1
zOptTrimmedNonEmpty(v) == v = Undefined \/ zTrimmedNonEmpty(v)
zOptBoolean(v) == v = Undefined \/ v.t = "bool"
\* z.array(z.number().int().positive()).optional()
zOptPositiveInts(v) ==
    \/ v = Undefined
    \/ IsArray(v) /\ \A i \in 1..Len(v.items) : zPositiveInt(v.items[i])
\* as SomeValueDefined, satisfied by any key that is present
SomeKeyPresent(o) == Keys(o) # {}

\* .refine((data) => Object.values(data).some((value) => value !== undefined))
SomeValueDefined(o) == \E k \in Keys(o) : o.f[k] # Undefined

\* the value zod returns for a z.string().trim() field
Trimmed(v) == IF IsString(v) THEN StrV(Trim(v.s)) ELSE v
\* the parsed object: the trimmed keys trimmed, everything else as given
ParsedObject(o, trimmedKeys) ==
    ObjV([k \in Keys(o) |-> IF k \in trimmedKeys THEN Trimmed(o.f[k]) ELSE o.f[k]])

\* as removeUndefinedValues, dropping nothing
keepUndefinedValues(payload) == payload

removeUndefinedValues(payload) ==
    ObjV([k \in {h \in Keys(payload) : payload.f[h] # Undefined} |-> payload.f[k]])

\* the dispatchers; comments (tools/comments.ts of the earlier layout) is
\* not among the tools server.ts registers
DispatcherTools == {"issues", "wiki", "comments"}
BacklogTools ==
    {"listIssues", "getIssue", "createIssue", "updateIssue", "deleteIssue",
     "transitionIssue", "issues", "listComments", "addComment", "updateComment",
     "deleteComment", "attachments", "activities", "searchWiki", "getWiki",
     "createWiki", "updateWiki", "deleteWiki", "wiki"}

\* the checks of the paginationSchema merged into a list tool's input schema
PaginationChecks(a) ==
    <<Check("offset", zOptNonNegativeInt(Get(a, "offset"))),
      Check("limit", zOptPositiveInt(Get(a, "limit")))>>

IssuePayloadChecks(p, prefix) ==
    IF ~IsObject(p) THEN <<Check(prefix, FALSE)>>
    ELSE <<Check(prefix \o ".summary", zTrimmedNonEmpty(Get(p, "summary"))),
           Check(prefix \o ".description", zOptString(Get(p, "description")))>>
IssueUpdateChecks(p) ==
    IF ~IsObject(p) THEN <<Check("updates", FALSE)>>
    ELSE <<Check("updates.summary", zOptTrimmedNonEmpty(Get(p, "summary"))),
           Check("updates.description", zOptString(Get(p, "description"))),
           Check("updates", SomeValueDefined(p))>>
CommentPayloadChecks(p) ==
    IF ~IsObject(p) THEN <<Check("comment", FALSE)>>
    ELSE <<Check("comment.content", zTrimmedNonEmpty(Get(p, "content"))),
           Check("comment.notifiedUserIds",
                 zOptPositiveInts(Get(p, "notifiedUserIds")))>>
CommentUpdateChecks(p) ==
    IF ~IsObject(p) THEN <<Check("updates", FALSE)>>
    ELSE <<Check("updates.content", zOptTrimmedNonEmpty(Get(p, "content"))),
           Check("updates.notifiedUserIds",
                 zOptPositiveInts(Get(p, "notifiedUserIds"))),
           Check("updates", SomeValueDefined(p))>>
WikiUpdateChecks(p) ==
    IF ~IsObject(p) THEN <<Check("updates", FALSE)>>
    ELSE <<Check("updates.name", zOptTrimmedNonEmpty(Get(p, "name"))),
           Check("updates.content", zOptString(Get(p, "content"))),
           Check("updates.mailNotify", zOptBoolean(Get(p, "mailNotify"))),
           Check("updates", SomeValueDefined(p))>>
AttachmentPayloadChecks(p) ==
    IF p = Undefined THEN <<>>
    ELSE IF ~IsObject(p) THEN <<Check("attachment", FALSE)>>
    ELSE <<Check("attachment.fileName", zTrimmedNonEmpty(Get(p, "fileName"))),
           Check("attachment.contentType", zTrimmedNonEmpty(Get(p, "contentType"))),
           Check("attachment.data", zTrimmedNonEmpty(Get(p, "data")))>>

AttachmentActions == {StrV(<<"l", "i", "s", "t">>),
                      StrV(<<"u", "p", "l", "o", "a", "d">>),
                      StrV(<<"d", "e", "l", "e", "t", "e">>)}
ActionList   == StrV(<<"l", "i", "s", "t">>)
ActionCreate == StrV(<<"c", "r", "e", "a", "t", "e">>)
ActionUpload == StrV(<<"u", "p", "l", "o", "a", "d">>)
ActionDelete == StrV(<<"d", "e", "l", "e", "t", "e">>)

\* the checks of the tool's zod input schema on the payload a; the
\* dispatchers issues and wiki parse nothing
InputChecks(name, a) ==
    CASE name = "listIssues" ->
           <<Check("projectKey", zTrimmedNonEmpty(Get(a, "projectKey"))),
             Check("keyword", zOptString(Get(a, "keyword"))),
             Check("count", zOptPositiveInt(Get(a, "count")))>>
      [] name \in {"getIssue", "deleteIssue"} ->
           <<Check("issueIdOrKey", zTrimmedNonEmpty(Get(a, "issueIdOrKey")))>>
      [] name = "createIssue" ->
           <<Check("projectKey", zTrimmedNonEmpty(Get(a, "projectKey")))>>
           \o IssuePayloadChecks(Get(a, "issue"), "issue")
      [] name = "updateIssue" ->
           <<Check("issueIdOrKey", zTrimmedNonEmpty(Get(a, "issueIdOrKey")))>>
           \o IssueUpdateChecks(Get(a, "updates"))
      [] name = "transitionIssue" ->
           <<Check("issueIdOrKey", zTrimmedNonEmpty(Get(a, "issueIdOrKey"))),
             Check("statusId", zPositiveInt(Get(a, "statusId"))),
             Check("comment", zOptTrimmedNonEmpty(Get(a, "comment")))>>
      [] name \in DispatcherTools -> <<>>
      [] name = "listComments" ->
           <<Check("issueId", zPositiveInt(Get(a, "issueId")))>>
           \o PaginationChecks(a)
      [] name = "addComment" ->
           <<Check("issueId", zPositiveInt(Get(a, "issueId")))>>
           \o CommentPayloadChecks(Get(a, "comment"))
      [] name = "updateComment" ->
           <<Check("issueId", zPositiveInt(Get(a, "issueId"))),
             Check("commentId", zPositiveInt(Get(a, "commentId")))>>
           \o CommentUpdateChecks(Get(a, "updates"))
      [] name = "deleteComment" ->
           <<Check("issueId", zPositiveInt(Get(a, "issueId"))),
             Check("commentId", zPositiveInt(Get(a, "commentId")))>>
      [] name = "attachments" ->
           <<Check("issueId", zPositiveInt(Get(a, "issueId"))),
             Check("action", Get(a, "action") \in AttachmentActions \cup {Undefined})>>
           \o AttachmentPayloadChecks(Get(a, "attachment"))
           \o <<Check("attachmentId", zOptPositiveInt(Get(a, "attachmentId")))>>
      [] name = "activities" ->
           <<Check("projectKey", zTrimmedNonEmpty(Get(a, "projectKey")))>>
           \o PaginationChecks(a)
      [] name = "searchWiki" ->
           <<Check("projectKeyOrId",
                   \/ zTrimmedNonEmpty(Get(a, "projectKeyOrId"))
                   \/ zPositiveInt(Get(a, "projectKeyOrId"))),
             Check("keyword", zOptTrimmedNonEmpty(Get(a, "keyword")))>>
           \o PaginationChecks(a)
      [] name \in {"getWiki", "deleteWiki"} ->
           <<Check("wikiId", zPositiveInt(Get(a, "wikiId")))>>
      [] name = "createWiki" ->
           IF ~IsObject(a) THEN <<Check("(root)", FALSE)>>
           ELSE <<Check("projectId", zPositiveInt(Get(a, "projectId"))),
                  Check("name", zTrimmedNonEmpty(Get(a, "name"))),
                  Check("content", zOptString(Get(a, "content"))),
                  Check("mailNotify", zOptBoolean(Get(a, "mailNotify")))>>
      [] name = "updateWiki" ->
           <<Check("wikiId", zPositiveInt(Get(a, "wikiId")))>>
           \o WikiUpdateChecks(Get(a, "updates"))

\* the object left of a payload once the named keys are destructured away
Rest(a, taken) == ObjV([k \in Keys(a) \ taken |-> a.f[k]])

Segment(v) == encodeURIComponent(ToStringChars(v))

\* "Issue payload is required when creating a Backlog issue."
TxtIssuePayloadRequired ==
    <<"I", "s", "s", "u", "e", " ", "p", "a", "y", "l", "o", "a",
      "d", " ", "i", "s", " ", "r", "e", "q", "u", "i", "r", "e",
      "d", " ", "w", "h", "e", "n", " ", "c", "r", "e", "a", "t",
      "i", "n", "g", " ", "a", " ", "B", "a", "c", "k", "l", "o",
      "g", " ", "i", "s", "s", "u", "e", ".">>

\* "Attachment payload is required when uploading to Backlog."
TxtAttachmentPayloadRequired ==
    <<"A", "t", "t", "a", "c", "h", "m", "e", "n", "t", " ", "p",
      "a", "y", "l", "o", "a", "d", " ", "i", "s", " ", "r", "e",
      "q", "u", "i", "r", "e", "d", " ", "w", "h", "e", "n", " ",
      "u", "p", "l", "o", "a", "d", "i", "n", "g", " ", "t", "o",
      " ", "B", "a", "c", "k", "l", "o", "g", ".">>

\* "Attachment ID is required when deleting a Backlog attachment."
TxtAttachmentIdRequired ==
    <<"A", "t", "t", "a", "c", "h", "m", "e", "n", "t", " ", "I",
      "D", " ", "i", "s", " ", "r", "e", "q", "u", "i", "r", "e",
      "d", " ", "w", "h", "e", "n", " ", "d", "e", "l", "e", "t",
      "i", "n", "g", " ", "a", " ", "B", "a", "c", "k", "l", "o",
      "g", " ", "a", "t", "t", "a", "c", "h", "m", "e", "n", "t",
      ".">>

\* "The ping tool expects a string input."
TxtPingExpectsString ==
    <<"T", "h", "e", " ", "p", "i", "n", "g", " ", "t", "o", "o",
      "l", " ", "e", "x", "p", "e", "c", "t", "s", " ", "a", " ",
      "s", "t", "r", "i", "n", "g", " ", "i", "n", "p", "u", "t",
      ".">>

\* "pong:"
TxtPong ==
    <<"p", "o", "n", "g", ":">>

\* "deleted"
TxtDeleted ==
    <<"d", "e", "l", "e", "t", "e", "d">>

\* " executed successfully."
TxtExecutedSuccessfully ==
    <<" ", "e", "x", "e", "c", "u", "t", "e", "d", " ", "s", "u",
      "c", "c", "e", "s", "s", "f", "u", "l", "l", "y", ".">>

ToolNameText(name) ==
    CASE name = "listIssues" -> <<"l", "i", "s", "t", "I", "s", "s", "u", "e", "s">>
      [] name = "getIssue" -> <<"g", "e", "t", "I", "s", "s", "u", "e">>
      [] name = "createIssue" -> <<"c", "r", "e", "a", "t", "e", "I", "s", "s", "u", "e">>
      [] name = "updateIssue" -> <<"u", "p", "d", "a", "t", "e", "I", "s", "s", "u", "e">>
      [] name = "deleteIssue" -> <<"d", "e", "l", "e", "t", "e", "I", "s", "s", "u", "e">>
      [] name = "transitionIssue" -> <<"t", "r", "a", "n", "s", "i", "t", "i", "o", "n", "I", "s", "s", "u", "e">>
      [] name = "issues" -> <<"i", "s", "s", "u", "e", "s">>
      [] name = "listComments" -> <<"l", "i", "s", "t", "C", "o", "m", "m", "e", "n", "t", "s">>
      [] name = "addComment" -> <<"a", "d", "d", "C", "o", "m", "m", "e", "n", "t">>
      [] name = "updateComment" -> <<"u", "p", "d", "a", "t", "e", "C", "o", "m", "m", "e", "n", "t">>
      [] name = "deleteComment" -> <<"d", "e", "l", "e", "t", "e", "C", "o", "m", "m", "e", "n", "t">>
      [] name = "attachments" -> <<"a", "t", "t", "a", "c", "h", "m", "e", "n", "t", "s">>
      [] name = "activities" -> <<"a", "c", "t", "i", "v", "i", "t", "i", "e", "s">>
      [] name = "searchWiki" -> <<"s", "e", "a", "r", "c", "h", "W", "i", "k", "i">>
      [] name = "getWiki" -> <<"g", "e", "t", "W", "i", "k", "i">>
      [] name = "createWiki" -> <<"c", "r", "e", "a", "t", "e", "W", "i", "k", "i">>
      [] name = "updateWiki" -> <<"u", "p", "d", "a", "t", "e", "W", "i", "k", "i">>
      [] name = "deleteWiki" -> <<"d", "e", "l", "e", "t", "e", "W", "i", "k", "i">>
      [] name = "wiki" -> <<"w", "i", "k", "i">>
      [] name = "ping" -> <<"p", "i", "n", "g">>

\* action = 'list' by default
ActionOf(a) == IF Get(a, "action") = Undefined THEN ActionList ELSE Get(a, "action")

\* "Comment payload is required when creating a Backlog comment."
TxtCommentPayloadRequired ==
    <<"C", "o", "m", "m", "e", "n", "t", " ", "p", "a", "y", "l", "o", "a",
      "d", " ", "i", "s", " ", "r", "e", "q", "u", "i", "r", "e", "d", " ",
      "w", "h", "e", "n", " ", "c", "r", "e", "a", "t", "i", "n", "g", " ",
      "a", " ", "B", "a", "c", "k", "l", "o", "g", " ", "c", "o", "m", "m",
      "e", "n", "t", ".">>

\* as PreconditionError, with no tool checking anything
PreconditionErrorNone(name, a) == Undefined

\* the Error a tool throws on its own before it calls the client
PreconditionError(name, a) ==
    CASE name = "issues" /\ ActionOf(a) = ActionCreate /\ ~Truthy(Get(a, "issue")) ->
           ErrorV(StrV(TxtIssuePayloadRequired))
      [] name = "comments" /\ ActionOf(a) = ActionCreate
           /\ ~Truthy(Get(a, "comment")) ->
           ErrorV(StrV(TxtCommentPayloadRequired))
      [] name = "attachments" /\ ActionOf(a) = ActionUpload
           /\ ~Truthy(Get(a, "attachment")) ->
           ErrorV(StrV(TxtAttachmentPayloadRequired))
      [] name = "attachments" /\ ActionOf(a) = ActionDelete
           /\ ~IsNumberType(Get(a, "attachmentId")) ->
           ErrorV(StrV(TxtAttachmentIdRequired))
      [] OTHER -> Undefined

\* normalizePagination({ offset, limit }) on the parsed input
NormalizedPaginationOf(a) ==
    normalizePagination(ObjV(("offset" :> Get(a, "offset"))
                             @@ ("limit" :> Get(a, "limit"))))

IssuePath(a) == <<TxtIssues, Segment(Trimmed(Get(a, "issueIdOrKey")))>>
CommentsPath(a) == <<TxtIssues, Segment(Get(a, "issueId")), TxtComments>>
AttachmentsPath(a) == <<TxtIssues, Segment(Get(a, "issueId")), TxtAttachments>>
WikiPath(a) == <<TxtWikis, Segment(Get(a, "wikiId"))>>

\* the request the tool hands to the client once its input is accepted
ToolRequest(name, a) ==
    CASE name = "listIssues" ->
           LET keyword == Trimmed(Get(a, "keyword"))
               count == Get(a, "count")
               query == ObjV(
                  (IF Truthy(keyword) THEN "keyword" :> keyword ELSE NoKeys) @@
                  (IF IsNumberType(count) THEN "count" :> count ELSE NoKeys))
           IN buildRequest("GET",
                PathOf(<<TxtProjects, Segment(Trimmed(Get(a, "projectKey"))),
                         TxtIssues>>), Undefined, query)
      [] name = "getIssue" ->
           buildRequest("GET", PathOf(IssuePath(a)), Undefined, Undefined)
      [] name = "createIssue" ->
           buildRequest("POST",
                PathOf(<<TxtProjects, Segment(Trimmed(Get(a, "projectKey"))),
                         TxtIssues>>),
                removeUndefinedValues(ParsedObject(Get(a, "issue"), {"summary"})),
                Undefined)
      [] name = "updateIssue" ->
           buildRequest("PATCH", PathOf(IssuePath(a)),
                removeUndefinedValues(ParsedObject(Get(a, "updates"), {"summary"})),
                Undefined)
      [] name = "deleteIssue" ->
           buildRequest("DELETE", PathOf(IssuePath(a)), Undefined, Undefined)
      [] name = "transitionIssue" ->
           buildRequest("POST", PathOf(IssuePath(a) \o <<TxtStatus>>),
                removeUndefinedValues(ObjV(
                    ("statusId" :> Get(a, "statusId"))
                    @@ ("comment" :> Trimmed(Get(a, "comment"))))),
                Undefined)
      [] name = "issues" ->
           LET path == PathOf(<<TxtProjects, ToStringChars(Get(a, "projectKey")),
                                TxtIssues>>)
           IN IF ActionOf(a) = ActionCreate
                THEN buildRequest("POST", path, Get(a, "issue"), Undefined)
                ELSE buildRequest("GET", path, Undefined,
                       buildPaginationParams(
                         Rest(a, {"action", "projectKey", "issue"})))
      [] name = "comments" ->
           LET path == PathOf(<<TxtIssues, ToStringChars(Get(a, "issueId")),
                                TxtComments>>)
           IN IF ActionOf(a) = ActionCreate
                THEN buildRequest("POST", path, Get(a, "comment"), Undefined)
                ELSE buildRequest("GET", path, Undefined,
                       buildPaginationParams(
                         Rest(a, {"action", "issueId", "comment"})))
      [] name = "wiki" ->
           buildRequest("GET",
                PathOf(<<TxtProjects, ToStringChars(Get(a, "projectKeyOrId")),
                         TxtWikis>>), Undefined,
                buildPaginationParams(Rest(a, {"projectKeyOrId"})))
      [] name = "listComments" ->
           buildRequest("GET", PathOf(CommentsPath(a)), Undefined,
                buildPaginationParams(NormalizedPaginationOf(a)))
      [] name = "addComment" ->
           buildRequest("POST", PathOf(CommentsPath(a)),
                ParsedObject(Get(a, "comment"), {"content"}), Undefined)
      [] name = "updateComment" ->
           buildRequest("PATCH",
                PathOf(CommentsPath(a) \o <<Segment(Get(a, "commentId"))>>),
                removeUndefinedValues(ParsedObject(Get(a, "updates"), {"content"})),
                Undefined)
      [] name = "deleteComment" ->
           buildRequest("DELETE",
                PathOf(CommentsPath(a) \o <<Segment(Get(a, "commentId"))>>),
                Undefined, Undefined)
      [] name = "attachments" ->
           IF ActionOf(a) = ActionUpload
             THEN buildRequest("POST", PathOf(AttachmentsPath(a)),
                    ParsedObject(Get(a, "attachment"),
                                 {"fileName", "contentType", "data"}), Undefined)
           ELSE IF ActionOf(a) = ActionDelete
             THEN buildRequest("DELETE",
                    PathOf(AttachmentsPath(a) \o <<Segment(Get(a, "attachmentId"))>>),
                    Undefined, Undefined)
           ELSE buildRequest("GET", PathOf(AttachmentsPath(a)), Undefined, Undefined)
      [] name = "activities" ->
           buildRequest("GET",
                PathOf(<<TxtProjects, ToStringChars(Trimmed(Get(a, "projectKey"))),
                         TxtActivities>>), Undefined,
                buildPaginationParams(NormalizedPaginationOf(a)))
      [] name = "searchWiki" ->
           LET paginationParams == buildPaginationParams(NormalizedPaginationOf(a))
               keyword == Trimmed(Get(a, "keyword"))
               query == ObjV(
                  (IF Get(paginationParams, "offset") # Undefined
                     THEN "offset" :> Get(paginationParams, "offset") ELSE NoKeys) @@
                  (IF Get(paginationParams, "count") # Undefined
                     THEN "count" :> Get(paginationParams, "count") ELSE NoKeys) @@
                  (IF Truthy(keyword) THEN "keyword" :> keyword ELSE NoKeys))
           IN buildRequest("GET",
                PathOf(<<TxtProjects, Segment(Trimmed(Get(a, "projectKeyOrId"))),
                         TxtWikis>>), Undefined, query)
      [] name = "getWiki" ->
           buildRequest("GET", PathOf(WikiPath(a)), Undefined, Undefined)
      [] name = "createWiki" ->
           buildRequest("POST", PathOf(<<TxtWikis>>),
                removeUndefinedValues(ParsedObject(a, {"name"})), Undefined)
      [] name = "updateWiki" ->
           buildRequest("PATCH", PathOf(WikiPath(a)),
                removeUndefinedValues(ParsedObject(Get(a, "updates"), {"name"})),
                Undefined)
      [] name = "deleteWiki" ->
           buildRequest("DELETE", PathOf(WikiPath(a)), Undefined, Undefined)

Requested(req) == [t |-> "request", request |-> req]

\* tool.execute(payload) up to its first await: a throw, or the request
ExecuteStart(name, a) ==
    LET issues == IssuesOf(InputChecks(name, a)) IN
    IF issues # <<>> THEN Thrown(ZodError(issues))
    ELSE IF PreconditionError(name, a) # Undefined
      THEN Thrown(PreconditionError(name, a))
    ELSE IF createAuthHeaders([apiKey |-> ConfigApiKey]).t = "throw"
      THEN Thrown(createAuthHeaders([apiKey |-> ConfigApiKey]).error)
    ELSE Requested(ToolRequest(name, a))

\* as nextOffsetOf, with a page at least as long as the limit counted as full
\* and the offset left out of the sum
nextOffsetFromLimitOnly(normalizedPagination, length) ==
    LET effectiveLimit == Get(normalizedPagination, "limit")
    IN IF IsNumberType(effectiveLimit) /\ length * Den >= effectiveLimit.n
         THEN effectiveLimit
         ELSE Null

\* as nextOffsetOf, counting on from the offset by the entries returned
\* whenever a limit is set
nextOffsetPastPage(normalizedPagination, length) ==
    LET effectiveOffset == IF Get(normalizedPagination, "offset") \in {Undefined, Null}
                             THEN IntV(0)
                             ELSE Get(normalizedPagination, "offset")
        effectiveLimit == Get(normalizedPagination, "limit")
    IN IF IsNumberType(effectiveLimit)
         THEN NumV(effectiveOffset.n + length * Den)
         ELSE Null

\* the nextOffset of listComments, searchWiki and activities, from the
\* normalised pagination and the count of entries upstream returned
nextOffsetOf(normalizedPagination, length) ==
    LET effectiveOffset == IF Get(normalizedPagination, "offset") \in {Undefined, Null}
                             THEN IntV(0)
                             ELSE Get(normalizedPagination, "offset")
        effectiveLimit == Get(normalizedPagination, "limit")
    IN IF IsNumberType(effectiveLimit) /\ IntV(length) = effectiveLimit
         THEN NumV(effectiveOffset.n + effectiveLimit.n)
         ELSE Null

\* as ParsedEntity, with the failure thrown as a plain Error
ParsedEntityPlainError(kind, v, result) ==
    IF EntityIssues(kind, v) # <<>> THEN Thrown(ErrorV(StrV(TxtInvalidParameters)))
    ELSE Returned(result)

\* schema.parse(v) on one entity, then the result made of it
ParsedEntity(kind, v, result) ==
    IF EntityIssues(kind, v) # <<>> THEN Thrown(ZodError(EntityIssues(kind, v)))
    ELSE Returned(result)
\* z.array(schema).parse(v), then the result made of it
ParsedList(kind, v, result) ==
    IF ListIssues(kind, v) # <<>> THEN Thrown(ZodError(ListIssues(kind, v)))
    ELSE Returned(result)

\* tool.execute(payload) from the point where the client resolved with value
ExecuteResume(name, a, value) ==
    CASE name = "listIssues" ->
           ParsedList("issue", value,
               IF IsArray(value) THEN ArrV(MapItems(value.items, toIssueListItem))
               ELSE Undefined)
      [] name = "getIssue" -> ParsedEntity("issue", value, toIssueDetails(value))
      [] name \in {"createIssue", "updateIssue"} ->
           ParsedEntity("issue", value, ObjV("issueKey" :> Get(value, "issueKey")))
      [] name = "deleteIssue" ->
           Returned(ObjV(("status" :> StrV(TxtDeleted))
                         @@ ("issueKey" :> Trimmed(Get(a, "issueIdOrKey")))))
      [] name = "transitionIssue" ->
           ParsedEntity("issue", value,
               ObjV(("issueKey" :> Get(value, "issueKey"))
                    @@ ("status" :> NameOrNull(Get(value, "status")))))
      [] name \in DispatcherTools -> Returned(value)
      [] name = "listComments" ->
           ParsedList("comment", value,
               IF IsArray(value)
                 THEN ObjV(("comments" :> ArrV(MapItems(value.items, toCommentInfo)))
                           @@ ("nextOffset" :>
                                 nextOffsetOf(NormalizedPaginationOf(a),
                                              Len(value.items))))
                 ELSE Undefined)
      [] name \in {"addComment", "updateComment"} ->
           ParsedEntity("comment", value, toCommentInfo(value))
      [] name = "deleteComment" ->
           Returned(ObjV(("status" :> StrV(TxtDeleted))
                         @@ ("issueId" :> Get(a, "issueId"))
                         @@ ("commentId" :> Get(a, "commentId"))))
      [] name = "attachments" ->
           IF ActionOf(a) = ActionUpload
             THEN ParsedEntity("attachment", value,
                    ObjV("attachment" :> toAttachmentInfo(value)))
           ELSE IF ActionOf(a) = ActionDelete
             THEN Returned(ObjV(("status" :> StrV(TxtDeleted))
                                @@ ("issueId" :> Get(a, "issueId"))
                                @@ ("attachmentId" :> Get(a, "attachmentId"))))
           ELSE ParsedList("attachment", value,
                  IF IsArray(value)
                    THEN ObjV("attachments" :>
                                ArrV(MapItems(value.items, toAttachmentInfo)))
                    ELSE Undefined)
      [] name = "activities" ->
           ParsedList("activity", value,
               IF IsArray(value)
                 THEN ObjV(("activities" :> ArrV(MapItems(value.items, toActivityInfo)))
                           @@ ("nextOffset" :>
                                 nextOffsetOf(NormalizedPaginationOf(a),
                                              Len(value.items))))
                 ELSE Undefined)
      [] name = "searchWiki" ->
           ParsedList("wiki", value,
               IF IsArray(value)
                 THEN ObjV(("wikis" :> ArrV(MapItems(value.items, toWikiSummary)))
                           @@ ("nextOffset" :>
                                 nextOffsetOf(NormalizedPaginationOf(a),
                                              Len(value.items))))
                 ELSE Undefined)
      [] name \in {"getWiki", "createWiki", "updateWiki"} ->
           ParsedEntity("wiki", value, toWikiDetails(value))
      [] name = "deleteWiki" ->
           Returned(ObjV(("status" :> StrV(TxtDeleted))
                         @@ ("wikiId" :> Get(a, "wikiId"))))

-----------------------------------------------------------------------------
(* server.ts: the ping tool, and the wrapper every Backlog tool is         *)
(* registered under.                                                       *)

\* model only: the text JSON.stringify(result, null, 2) gives
JsonText(result) == [t |-> "json", of |-> result]

formatToolResult(toolName, result) ==
    IF result \in {Undefined, Null}
      THEN StrV(ToolNameText(toolName) \o TxtExecutedSuccessfully)
    ELSE IF IsString(result) THEN result
    ELSE JsonText(result)

TextContent(text) ==
    ArrV(<<ObjV(("type" :> StrV(<<"t", "e", "x", "t">>)) @@ ("text" :> text))>>)

\* the registered execute of a Backlog tool, given how tool.execute ended:
\* the response it returns, or the McpError handleError throws
WrapperOutcome(toolName, executed) ==
    IF executed.t = "return"
      THEN Returned(ObjV(
             ("content" :> TextContent(formatToolResult(toolName, executed.value)))
             @@ (IF executed.value # Undefined
                   THEN "structuredContent" :> executed.value ELSE NoKeys)))
      ELSE Thrown(handleError(executed.error, StrV(ToolNameText(toolName)),
                              Undefined))

\* the registered execute of ping
PingOutcome(input) ==
    IF ~IsString(input) THEN Thrown(ErrorV(StrV(TxtPingExpectsString)))
    ELSE Returned(ObjV("content" :> TextContent(StrV(TxtPong \o input.s))))

\* BacklogClient.request on the response fetch resolved to, its catch
\* clause included
clientRequest(resp) ==
    LET inner == requestOutcome(resp) IN
    IF inner.t = "throw" THEN requestRejected(inner.error) ELSE inner

\* A line BacklogClient.request writes to the console: the console method,
\* which of its templates, and the values interpolated into it.  `${url}` is
\* url.toString(), the resolved URL followed by "?" and the query pairs, and
\* is kept as the request's url and query; detail is the status or the
\* error's message, body the text read from a failed response.
LogLine(level, template, req, detail, body) ==
    [level |-> level, template |-> template, method |-> req.method,
     url |-> req.url, query |-> req.query, detail |-> detail, body |-> body]

\* console.debug before fetch
requestLog(req) == {LogLine("debug", "request", req, <<>>, Undefined)}

\* console.error of the outer catch clause for what the try block threw
catchLog(req, thrown) ==
    IF thrown.error = RATE_LIMIT_TOKEN THEN {}
    ELSE IF InstanceOfError(thrown.error)
      THEN {LogLine("error", "executing", req, thrown.error.message.s, Undefined)}
    ELSE {LogLine("error", "unexpected", req, <<>>, Undefined)}

\* the lines written once fetch resolved to resp
responseLog(req, resp) ==
    {LogLine("debug", "response", req, NatToChars(resp.status), Undefined)}
      \cup (IF resp.status = 429
               THEN {LogLine("warn", "rateLimit", req, <<>>, Undefined)}
             ELSE IF ~ResponseOk(resp.status)
               THEN {LogLine("error", "failed", req, NatToChars(resp.status),
                             IF resp.body = StrV(<<>>) THEN Undefined
                             ELSE resp.body)}
             ELSE IF resp.status = 204 \/ resp.status = 205
               THEN {LogLine("debug", "noContent", req, <<>>, Undefined)}
             ELSE IF resp.body.t = "unparsable"
               THEN {LogLine("error", "parse", req, <<>>, resp.body.error)}
             ELSE {})
      \cup (IF requestOutcome(resp).t = "throw"
               THEN catchLog(req, requestOutcome(resp))
             ELSE {})

\* the lines written once fetch rejected with error
rejectedLog(req, error) == catchLog(req, Thrown(error))

-----------------------------------------------------------------------------
(* server.ts: startup.                                                     *)

\* "Missing required environment variable "
TxtMissingVariable ==
    <<"M", "i", "s", "s", "i", "n", "g", " ", "r", "e", "q", "u",
      "i", "r", "e", "d", " ", "e", "n", "v", "i", "r", "o", "n",
      "m", "e", "n", "t", " ", "v", "a", "r", "i", "a", "b", "l",
      "e", " ">>

\* " for Backlog MCP server."
TxtForServer ==
    <<" ", "f", "o", "r", " ", "B", "a", "c", "k", "l", "o", "g",
      " ", "M", "C", "P", " ", "s", "e", "r", "v", "e", "r", ".">>

\* "BACKLOG_BASE_URL"
TxtBaseUrlName ==
    <<"B", "A", "C", "K", "L", "O", "G", "_", "B", "A", "S", "E",
      "_", "U", "R", "L">>

\* "BACKLOG_API_KEY"
TxtApiKeyName ==
    <<"B", "A", "C", "K", "L", "O", "G", "_", "A", "P", "I", "_",
      "K", "E", "Y">>

\* as ensureEnv, rejecting only a variable that is not set
ensureEnvSetOnly(value, name) ==
    IF value = Undefined
      THEN Thrown(ErrorV(StrV(TxtMissingVariable \o name \o TxtForServer)))
      ELSE Returned(value)

\* ensureEnv(value, name): the value, or the Error thrown when it is falsy
ensureEnv(value, name) ==
    IF ~Truthy(value)
      THEN Thrown(ErrorV(StrV(TxtMissingVariable \o name \o TxtForServer)))
      ELSE Returned(value)

BootOff      == [t |-> "off"]
BootStarting == [t |-> "starting"]
BootServing  == [t |-> "serving"]
BootFatal(error) == [t |-> "fatal", error |-> error]

\* the module body of server.ts on the environment e: ping is registered,
\* both settings are resolved, the client is constructed, the Backlog tools
\* are registered and the server is started; any throw on the way is fatal
StartupOutcome(e) ==
    LET backlogBaseUrl == ensureEnv(e.baseUrl, TxtBaseUrlName)
        backlogApiKey  == ensureEnv(e.apiKey, TxtApiKeyName)
    IN IF backlogBaseUrl.t = "throw"
         THEN [boot |-> BootFatal(backlogBaseUrl.error), client |-> Unset,
               registered |-> {"ping"}]
       ELSE IF backlogApiKey.t = "throw"
         THEN [boot |-> BootFatal(backlogApiKey.error), client |-> Unset,
               registered |-> {"ping"}]
       ELSE LET constructed == BacklogClientNew([baseUrl |-> backlogBaseUrl.value,
                                                 apiKey |-> backlogApiKey.value])
            IN IF constructed.t = "throw"
                 THEN [boot |-> BootFatal(constructed.error),
                       client |-> constructed, registered |-> {"ping"}]
                 ELSE [boot |-> BootServing, client |-> constructed.value,
                       registered |-> {"ping"} \cup BacklogTools]

-----------------------------------------------------------------------------
(* The pagination functions on their own: every options value a caller can *)
(* hand over, including the untrusted ones.                                *)

PagValues ==
    {NumV(n) : n \in -MaxNum..MaxNum}
      \cup {NaN, PosInf, NegInf, Undefined, Null, StrV(<<"5">>)}

PagOptions ==
    {Undefined} \cup
    {ObjV(f) : f \in UNION {[D -> PagValues] : D \in SUBSET {"offset", "limit"}}}

PgIdle == pgOptions = Undefined /\ pgNormalized = Unset /\ pgParams = Unset
ErrIdle == errInput = Unset /\ errThrown = Unset
InvIdle ==
    /\ pc = "idle"
    /\ tool = "none"
    /\ args = Undefined
    /\ netCalls = 0
    /\ request = Unset
    /\ response = Unset
    /\ outcome = Unset
    /\ clientLog = {}

BootIdle ==
    /\ env = Unset
    /\ boot = BootOff
    /\ client = Unset
    /\ registered = {}

MapIdle == mapperName = "none" /\ entity = Unset /\ shape = Unset
ConcIdle == running = <<>>

InitPagination ==
    /\ pgOptions \in PagOptions
    /\ pgNormalized = Unset
    /\ pgParams = Unset
    /\ ErrIdle
    /\ InvIdle
    /\ BootIdle
    /\ MapIdle
    /\ ConcIdle

NormalizePagination ==
    /\ pgNormalized = Unset
    /\ pgNormalized' = normalizePagination(pgOptions)
    /\ UNCHANGED <<pgOptions, pgParams, errVars, invVars, bootVars, mapVars, concVars>>

BuildPaginationParams ==
    /\ pgParams = Unset
    /\ pgParams' = buildPaginationParams(pgOptions)
    /\ UNCHANGED <<pgOptions, pgNormalized, errVars, invVars, bootVars, mapVars, concVars>>

NextPagination == NormalizePagination \/ BuildPaginationParams

SpecPagination == InitPagination /\ [][NextPagination]_vars

-----------------------------------------------------------------------------
(* The classifier on its own: handleError applied to every shape of error  *)
(* a caller can hand it.                                                   *)

StatusCodes == 100..599

\* "boom"
TxtBoom ==
    <<"b", "o", "o", "m">>

\* "STATUS  401 returned"
TxtUpperStatus ==
    <<"S", "T", "A", "T", "U", "S", " ", " ", "4", "0", "1", " ", "r", "e",
      "t", "u", "r", "n", "e", "d">>

\* "status404"
TxtNoSpaceStatus ==
    <<"s", "t", "a", "t", "u", "s", "4", "0", "4">>

\* "status 99; Status 503"
TxtTwoDigitThenStatus ==
    <<"s", "t", "a", "t", "u", "s", " ", "9", "9", ";", " ", "S", "t", "a",
      "t", "u", "s", " ", "5", "0", "3">>

\* "status 4290"
TxtLongStatus ==
    <<"s", "t", "a", "t", "u", "s", " ", "4", "2", "9", "0">>

\* "unexpected"
TxtUnexpected ==
    <<"u", "n", "e", "x", "p", "e", "c", "t", "e", "d">>

\* "Unable to complete the request."
TxtFallback ==
    <<"U", "n", "a", "b", "l", "e", " ", "t", "o", " ", "c", "o", "m", "p",
      "l", "e", "t", "e", " ", "t", "h", "e", " ", "r", "e", "q", "u", "e",
      "s", "t", ".">>

\* "listIssues"
TxtListIssues ==
    <<"l", "i", "s", "t", "I", "s", "s", "u", "e", "s">>

ErrMessages ==
    {StrV(TxtBoom), StrV(TxtUpperStatus), StrV(TxtNoSpaceStatus),
     StrV(TxtTwoDigitThenStatus), StrV(TxtLongStatus),
     RequestFailedMessage(404), RequestFailedMessage(429)}

ErrDetails == {Undefined, ObjV("resource" :> StrV(<<"i", "s", "s", "u", "e">>))}

ErrSamples ==
    \* BacklogError with the status attached
    {BacklogError(m, IntV(s), Undefined, d) :
        s \in StatusCodes \cup {0, 99, 600, 999},
        m \in {StrV(TxtBoom), RequestFailedMessage(404), RequestFailedMessage(429)},
        d \in ErrDetails}
    \* BacklogError without a status, plain Error: the status is in the text or nowhere
    \cup {BacklogError(m, Undefined, Undefined, d) : m \in ErrMessages, d \in ErrDetails}
    \cup {ErrorV(m) : m \in ErrMessages}
    \cup {ErrorV(RequestFailedMessage(s)) : s \in StatusCodes}
    \* validation failures
    \cup {ZodError(<<>>), ZodError(<<StrV(<<"s", "t", "a", "t", "u", "s", " ", "4", "0", "1">>)>>)}
    \* already classified
    \cup {McpError(c, StrV(TxtBoom), ObjV("status" :> IntV(503))) :
            c \in {UNAVAILABLE, InvalidParams}}
    \* values that are no Error
    \cup {RATE_LIMIT_TOKEN, StrV(TxtUnexpected), Undefined, Null,
          ObjV("status" :> IntV(404))}

ErrInputs ==
    [error : ErrSamples,
     toolName : {Undefined, StrV(TxtListIssues)},
     fallbackMessage : {Undefined, StrV(TxtFallback)}]

InitErrors ==
    /\ errInput \in ErrInputs
    /\ errThrown = Unset
    /\ PgIdle
    /\ InvIdle
    /\ BootIdle
    /\ MapIdle
    /\ ConcIdle

HandleError ==
    /\ errInput # Unset
    /\ errThrown = Unset
    /\ errThrown' = handleError(errInput.error, errInput.toolName,
                                errInput.fallbackMessage)
    /\ UNCHANGED <<errInput, pgVars, invVars, bootVars, mapVars, concVars>>

NextErrors == HandleError

SpecErrors == InitErrors /\ [][NextErrors]_vars

-----------------------------------------------------------------------------
(* One tool invocation from the MCP host to the caller-visible outcome:    *)
(* the registered execute runs the tool up to its request, upstream (or    *)
(* the network) answers, and the tool and the wrapper finish.              *)

\* " PJ " (needs trimming), "a/b" (needs encoding), " " (blank)
KeyPadded == StrV(<<" ", "P", "J", " ">>)
KeySlash  == StrV(<<"a", "/", "b">>)
Blank     == StrV(<<" ">>)
Word      == StrV(<<"b", "u", "g">>)

KeyInputs    == {KeyPadded, KeySlash, Blank, Undefined}
IdInputs     == {IntV(42), IntV(0), NumV(Den + 1), Undefined}
OffsetInputs == {Undefined, IntV(1), IntV(-1), NumV(1)}
LimitInputs  == {Undefined, IntV(1), IntV(2), IntV(0), NumV(Den + 1)}
KeywordInputs == {Undefined, Word, Blank}

IssuePayloads ==
    {Undefined, ObjV("summary" :> Word), ObjV("summary" :> Blank),
     ObjV(("summary" :> KeyPadded) @@ ("description" :> Undefined)),
     ObjV(("summary" :> Word) @@ ("priorityId" :> IntV(3)))}
\* a second field of the update payload whose first field is key
SecondField(key) ==
    CASE key = "summary" -> [k |-> "description", v |-> Word]
      [] key = "content" -> [k |-> "notifiedUserIds", v |-> ArrV(<<IntV(7)>>)]
      [] key = "name"    -> [k |-> "content", v |-> Word]
UpdatePayloads(key) ==
    {Undefined, EmptyObj, ObjV(key :> Undefined), ObjV(key :> Blank),
     ObjV(key :> KeyPadded),
     ObjV((key :> Undefined) @@ (SecondField(key).k :> Undefined)),
     ObjV((key :> Undefined) @@ (SecondField(key).k :> SecondField(key).v))}
CommentPayloads ==
    {Undefined, ObjV("content" :> Blank),
     ObjV(("content" :> Word) @@ ("notifiedUserIds" :> ArrV(<<IntV(7)>>))),
     ObjV(("content" :> Word) @@ ("notifiedUserIds" :> ArrV(<<IntV(0)>>)))}
AttachmentPayloads ==
    {Undefined,
     ObjV(("fileName" :> KeyPadded) @@ ("contentType" :> Word) @@ ("data" :> Word)),
     ObjV(("fileName" :> Word) @@ ("contentType" :> Word) @@ ("data" :> Blank))}

\* the payloads the host may hand to the named tool
ToolInputs(name) ==
    CASE name = "listIssues" ->
           {ObjV(("projectKey" :> k) @@ ("keyword" :> w) @@ ("count" :> c)) :
              k \in KeyInputs, w \in KeywordInputs, c \in {Undefined, IntV(2), IntV(0)}}
      [] name \in {"getIssue", "deleteIssue"} ->
           {ObjV("issueIdOrKey" :> k) : k \in KeyInputs}
      [] name = "createIssue" ->
           {ObjV(("projectKey" :> k) @@ ("issue" :> p)) :
              k \in KeyInputs, p \in IssuePayloads}
      [] name = "updateIssue" ->
           {ObjV(("issueIdOrKey" :> k) @@ ("updates" :> p)) :
              k \in KeyInputs, p \in UpdatePayloads("summary")}
      [] name = "transitionIssue" ->
           {ObjV(("issueIdOrKey" :> k) @@ ("statusId" :> s) @@ ("comment" :> c)) :
              k \in KeyInputs, s \in {IntV(2), IntV(0), Undefined},
              c \in KeywordInputs}
      [] name = "issues" ->
           {ObjV(("projectKey" :> k) @@ ("action" :> act) @@ ("issue" :> p)
                 @@ ("offset" :> o) @@ ("limit" :> l)) :
              k \in {KeyPadded, Blank},
              act \in {Undefined, ActionCreate},
              p \in {Undefined, ObjV("summary" :> Blank)},
              o \in {Undefined, IntV(-1)}, l \in {Undefined, IntV(2)}}
      [] name = "wiki" ->
           {ObjV(("projectKeyOrId" :> k) @@ ("offset" :> o) @@ ("limit" :> l)) :
              k \in {KeyPadded, Blank},
              o \in {Undefined, IntV(-1)}, l \in {Undefined, IntV(2)}}
      [] name = "listComments" ->
           {ObjV(("issueId" :> i) @@ ("offset" :> o) @@ ("limit" :> l)) :
              i \in IdInputs, o \in OffsetInputs, l \in LimitInputs}
      [] name = "addComment" ->
           {ObjV(("issueId" :> i) @@ ("comment" :> p)) :
              i \in IdInputs, p \in CommentPayloads}
      [] name = "updateComment" ->
           {ObjV(("issueId" :> i) @@ ("commentId" :> c) @@ ("updates" :> p)) :
              i \in IdInputs, c \in {IntV(5), IntV(0)},
              p \in UpdatePayloads("content")}
      [] name = "deleteComment" ->
           {ObjV(("issueId" :> i) @@ ("commentId" :> c)) :
              i \in IdInputs, c \in {IntV(5), IntV(0)}}
      [] name = "attachments" ->
           {ObjV(("issueId" :> i) @@ ("action" :> act) @@ ("attachment" :> p)
                 @@ ("attachmentId" :> n)) :
              i \in IdInputs,
              act \in {Undefined, ActionList, ActionUpload, ActionDelete, Word},
              p \in AttachmentPayloads, n \in {Undefined, IntV(9), IntV(0)}}
      [] name = "activities" ->
           {ObjV(("projectKey" :> k) @@ ("offset" :> o) @@ ("limit" :> l)) :
              k \in KeyInputs, o \in OffsetInputs, l \in LimitInputs}
      [] name = "searchWiki" ->
           {ObjV(("projectKeyOrId" :> k) @@ ("keyword" :> w)
                 @@ ("offset" :> o) @@ ("limit" :> l)) :
              k \in {KeyPadded, Blank, Undefined, IntV(3), IntV(0)},
              w \in KeywordInputs,
              o \in OffsetInputs, l \in LimitInputs}
      [] name \in {"getWiki", "deleteWiki"} ->
           {ObjV("wikiId" :> i) : i \in IdInputs}
      [] name = "createWiki" ->
           {ObjV(("projectId" :> i) @@ ("name" :> n) @@ ("content" :> Undefined)) :
              i \in IdInputs, n \in KeyInputs}
      [] name = "updateWiki" ->
           {ObjV(("wikiId" :> i) @@ ("updates" :> p)) :
              i \in IdInputs, p \in UpdatePayloads("name")}

PingInputs == {Word, StrV(<<>>), IntV(42), Undefined, EmptyObj}

\* what upstream may answer: up to MaxItems well-formed entities of a kind
\* (the odd ones with every optional field, the even ones with none), and
\* bodies that break the schema
StampText == StrV(<<"2", "0", "2", "4">>)
KeyText(i) == StrV(<<"P", "J", "-">> \o NatToChars(i))
SampleUser(i) ==
    ObjV(("id" :> IntV(i)) @@ ("userId" :> Word) @@ ("name" :> KeyText(i)))
SampleEntity(kind, i) ==
    LET id == "id" :> IntV(100 + i)
        full == i % 2 = 1
    IN CASE kind = "issue" ->
              ObjV(id @@ ("issueKey" :> KeyText(i)) @@ ("summary" :> Word)
                   @@ (IF full
                         THEN ("description" :> Null)
                              @@ ("status" :> ObjV(("id" :> IntV(2))
                                                   @@ ("name" :> Word)))
                              @@ ("assignee" :> SampleUser(i))
                              @@ ("updated" :> StampText)
                         ELSE NoKeys))
         [] kind = "comment" ->
              ObjV(id @@ (IF full
                            THEN ("content" :> Word)
                                 @@ ("createdUser" :> SampleUser(i))
                                 @@ ("created" :> StampText)
                                 @@ ("updated" :> Null)
                            ELSE NoKeys))
         [] kind = "attachment" ->
              ObjV(id @@ ("name" :> KeyText(i))
                   @@ (IF full
                         THEN ("size" :> IntV(i))
                              @@ ("createdUser" :> SampleUser(i))
                              @@ ("created" :> StampText)
                         ELSE NoKeys))
         [] kind = "wiki" ->
              ObjV(id @@ ("name" :> KeyText(i))
                   @@ (IF full
                         THEN ("projectId" :> IntV(3))
                              @@ ("content" :> Word)
                              @@ ("createdUser" :> SampleUser(i))
                              @@ ("updatedUser" :> Null)
                              @@ ("created" :> StampText)
                              @@ ("tags" :> ArrV(<<ObjV(("id" :> IntV(1))
                                                        @@ ("name" :> Word))>>))
                         ELSE NoKeys))
         [] kind = "activity" ->
              ObjV(id @@ (IF full
                            THEN ("type" :> IntV(1))
                                 @@ ("project" :> ObjV(("id" :> IntV(3))
                                                       @@ ("projectKey" :> Word)
                                                       @@ ("name" :> Word)))
                                 @@ ("createdUser" :> SampleUser(i))
                                 @@ ("created" :> StampText)
                            ELSE NoKeys))

\* an entity whose id is a string
MalformedEntity == ObjV(("id" :> StrV(<<"1">>)) @@ ("name" :> Word))

SamplePage(kind, n) == ArrV([i \in 1..n |-> SampleEntity(kind, i)])

ResourceKind(name) ==
    CASE name \in {"listIssues", "getIssue", "createIssue", "updateIssue",
                   "deleteIssue", "transitionIssue", "issues"} -> "issue"
      [] name \in {"listComments", "addComment", "updateComment",
                   "deleteComment", "comments"} -> "comment"
      [] name = "attachments" -> "attachment"
      [] name = "activities" -> "activity"
      [] name \in {"searchWiki", "getWiki", "createWiki", "updateWiki",
                   "deleteWiki", "wiki"} -> "wiki"

OkBodies(kind) ==
    {SamplePage(kind, n) : n \in 0..MaxItems}
      \cup {SampleEntity(kind, 1), SampleEntity(kind, 2)}
      \cup {ArrV(<<SampleEntity(kind, 1), MalformedEntity>>), MalformedEntity,
            Null, Unparsable(ErrorV(StrV(TxtUnexpectedToken))),
            Unparsable(ErrorV(StrV(TxtUnexpectedEnd)))}

OkStatuses == {200, 201, 204, 205}
FailedStatuses == 300..599
\* the body of a failed response is only logged: two bodies at the statuses
\* the classifier singles out, one elsewhere
FailedBodies(status) ==
    IF status \in {401, 403, 404, 429, 500}
      THEN {StrV(<<>>), ObjV("message" :> Word)}
      ELSE {StrV(<<>>)}

\* process.env at startup: each setting missing, empty, blank or given
EnvSamples ==
    [baseUrl : {Undefined, StrV(<<>>), Blank, StrV(TxtBaseUrl)},
     apiKey : {Undefined, StrV(<<>>), StrV(TxtApiKey)}]

Init ==
    /\ InvIdle
    /\ PgIdle
    /\ ErrIdle
    /\ env \in EnvSamples
    /\ boot = BootStarting
    /\ client = Unset
    /\ registered = {}
    /\ MapIdle
    /\ ConcIdle

\* the server process starts: the module body of server.ts runs
Startup ==
    /\ boot = BootStarting
    /\ LET started == StartupOutcome(env) IN
         /\ boot' = started.boot
         /\ client' = started.client
         /\ registered' = started.registered
    /\ UNCHANGED <<env, invVars, pgVars, errVars, mapVars, concVars>>

\* the host calls the registered execute of a Backlog tool: the tool runs up
\* to its request, or fails before it and the wrapper classifies the failure
Invoke(name, a) ==
    /\ boot = BootServing
    /\ name \in registered
    /\ pc = "idle"
    /\ tool' = name
    /\ args' = a
    /\ LET started == ExecuteStart(name, a) IN
         IF started.t = "request"
           THEN /\ pc' = "awaiting"
                /\ request' = started.request
                /\ netCalls' = netCalls + 1
                /\ UNCHANGED outcome
           ELSE /\ pc' = "done"
                /\ outcome' = WrapperOutcome(name, started)
                /\ UNCHANGED <<request, netCalls>>
    /\ clientLog' = IF pc' = "awaiting" THEN requestLog(request') ELSE {}
    /\ UNCHANGED <<response, pgVars, errVars, bootVars, mapVars, concVars>>

\* the host calls the registered execute of ping
InvokePing(input) ==
    /\ boot = BootServing
    /\ "ping" \in registered
    /\ pc = "idle"
    /\ tool' = "ping"
    /\ args' = input
    /\ pc' = "done"
    /\ outcome' = PingOutcome(input)
    /\ UNCHANGED clientLog
    /\ UNCHANGED <<request, netCalls, response, pgVars, errVars, bootVars, mapVars, concVars>>

\* as Respond, with the request issued once more after a first 429
RespondRetrying(status, body) ==
    /\ pc = "awaiting"
    /\ response' = [status |-> status, body |-> body]
    /\ IF status = 429 /\ netCalls < 2
         THEN /\ netCalls' = netCalls + 1
              /\ UNCHANGED <<pc, outcome>>
         ELSE /\ LET resolved == clientRequest(response')
                     executed == IF resolved.t = "throw" THEN resolved
                                 ELSE ExecuteResume(tool, args, resolved.value)
                 IN outcome' = WrapperOutcome(tool, executed)
              /\ pc' = "done"
              /\ UNCHANGED netCalls
    /\ clientLog' = clientLog \cup responseLog(request, response')
    /\ UNCHANGED <<tool, args, request, pgVars, errVars, bootVars, mapVars, concVars>>

\* fetch resolves: the client turns the response into a value or a throw,
\* the tool validates and maps the value, the wrapper formats or classifies
Respond(status, body) ==
    /\ pc = "awaiting"
    /\ response' = [status |-> status, body |-> body]
    /\ LET resolved == clientRequest(response')
           executed == IF resolved.t = "throw" THEN resolved
                       ELSE ExecuteResume(tool, args, resolved.value)
       IN outcome' = WrapperOutcome(tool, executed)
    /\ pc' = "done"
    /\ clientLog' = clientLog \cup responseLog(request, response')
    /\ UNCHANGED <<tool, args, request, netCalls, pgVars, errVars, bootVars, mapVars, concVars>>

\* fetch rejects (the network is down)
NetworkError ==
    /\ pc = "awaiting"
    /\ response' = [t |-> "rejected"]
    /\ outcome' = WrapperOutcome(tool,
                     requestRejected(ErrorV(StrV(TxtFetchFailed))))
    /\ pc' = "done"
    /\ clientLog' = clientLog \cup rejectedLog(request, ErrorV(StrV(TxtFetchFailed)))
    /\ UNCHANGED <<tool, args, request, netCalls, pgVars, errVars, bootVars, mapVars, concVars>>

Next ==
    \/ Startup
    \/ \E name \in BacklogTools : \E a \in ToolInputs(name) : Invoke(name, a)
    \/ \E input \in PingInputs : InvokePing(input)
    \/ /\ pc = "awaiting"
       /\ \E status \in OkStatuses : \E body \in OkBodies(ResourceKind(tool)) :
             Respond(status, body)
    \/ \E status \in FailedStatuses : \E body \in FailedBodies(status) :
          Respond(status, body)
    \/ NetworkError

Spec == Init /\ [][Next]_vars

-----------------------------------------------------------------------------
(* The client on its own: constructed from a configuration, then called    *)
(* through get, post, patch and delete by code that is free to pass any     *)
(* query, an apiKey entry included.                                        *)

TxtOtherKey == <<"k", "2">>
TxtForgedKey == <<"e", "v", "i", "l">>
\* "http://b/", "http://b/api" and " http://b/api/ "
TxtBaseUrlSlash == TxtBaseUrl \o <<"/">>
TxtBaseUrlPrefix == TxtBaseUrl \o <<"/", "a", "p", "i">>
TxtBaseUrlPadded == <<" ">> \o TxtBaseUrlPrefix \o <<"/", " ">>
ClientConfigs ==
    [baseUrl : {StrV(<<>>), Blank, StrV(TxtBaseUrl), StrV(TxtBaseUrlSlash),
                StrV(TxtBaseUrlPrefix), StrV(TxtBaseUrlPadded)},
     apiKey : {Undefined, StrV(<<>>), StrV(TxtApiKey), StrV(TxtOtherKey)}]
ClientMethods == {"GET", "POST", "PATCH", "DELETE"}
ClientPayloads(method) ==
    IF method \in {"POST", "PATCH"} THEN {Undefined, ObjV("summary" :> Word)}
    ELSE {Undefined}
ClientQueries ==
    {Undefined, ObjV("keyword" :> Undefined),
     ObjV("apiKey" :> StrV(TxtForgedKey)),
     ObjV(("count" :> IntV(2)) @@ ("apiKey" :> StrV(<<>>))),
     ObjV(("count" :> IntV(0)) @@ ("archived" :> BoolV(FALSE))
          @@ ("keyword" :> Null))}
ClientBodies ==
    {ObjV("id" :> IntV(1)), ArrV(<<>>), Null,
     Unparsable(ErrorV(StrV(TxtUnexpectedToken))),
     Unparsable(ErrorV(StrV(TxtUnexpectedEnd)))}

InitClient ==
    /\ env \in ClientConfigs
    /\ boot = BootOff
    /\ client = Unset
    /\ registered = {}
    /\ InvIdle
    /\ PgIdle
    /\ ErrIdle
    /\ MapIdle
    /\ ConcIdle

\* new BacklogClient(env)
Construct ==
    /\ client = Unset
    /\ LET made == BacklogClientNew(env) IN
         client' = IF made.t = "return" THEN made.value ELSE made
    /\ UNCHANGED <<env, boot, registered, invVars, pgVars, errVars, mapVars, concVars>>

\* client.get / post / patch / delete up to the await of fetch
ClientCall(method, path, payload, query) ==
    /\ client.t = "client"
    /\ pc = "idle"
    /\ args' = ObjV(("path" :> StrV(path)) @@ ("payload" :> payload)
                    @@ ("query" :> query))
    /\ IF createAuthHeaders([apiKey |-> ConfigApiKey]).t = "throw"
         THEN /\ pc' = "done"
              /\ outcome' = createAuthHeaders([apiKey |-> ConfigApiKey])
              /\ UNCHANGED <<request, netCalls>>
         ELSE /\ pc' = "awaiting"
              /\ request' = buildRequest(method, path, payload, query)
              /\ netCalls' = netCalls + 1
              /\ UNCHANGED outcome
    /\ clientLog' = IF pc' = "awaiting" THEN requestLog(request') ELSE {}
    /\ UNCHANGED <<tool, response, pgVars, errVars, bootVars, mapVars, concVars>>

\* fetch resolves
ClientRespond(status, body) ==
    /\ client.t = "client"
    /\ pc = "awaiting"
    /\ response' = [status |-> status, body |-> body]
    /\ outcome' = clientRequest(response')
    /\ pc' = "done"
    /\ clientLog' = clientLog \cup responseLog(request, response')
    /\ UNCHANGED <<tool, args, request, netCalls, pgVars, errVars, bootVars, mapVars, concVars>>

\* fetch rejects
ClientNetworkError ==
    /\ client.t = "client"
    /\ pc = "awaiting"
    /\ response' = [t |-> "rejected"]
    /\ outcome' = requestRejected(ErrorV(StrV(TxtFetchFailed)))
    /\ pc' = "done"
    /\ clientLog' = clientLog \cup rejectedLog(request, ErrorV(StrV(TxtFetchFailed)))
    /\ UNCHANGED <<tool, args, request, netCalls, pgVars, errVars, bootVars, mapVars, concVars>>

NextClient ==
    \/ Construct
    \/ \E method \in ClientMethods : \E payload \in ClientPayloads(method) :
         \E query \in ClientQueries :
           ClientCall(method, PathOf(<<TxtIssues>>), payload, query)
    \/ \E status \in OkStatuses : \E body \in ClientBodies :
         ClientRespond(status, body)
    \/ \E status \in FailedStatuses : \E body \in FailedBodies(status) :
         ClientRespond(status, body)
    \/ ClientNetworkError

SpecClient == InitClient /\ [][NextClient]_vars

-----------------------------------------------------------------------------
(* The issues and comments dispatchers on their own: execute called        *)
(* directly on the tool object, as the unit tests do, with a client that   *)
(* was constructed from a valid configuration.                             *)

DispatchedTools == {"issues", "comments"}
DispatchInputs(name) ==
    CASE name = "issues" ->
           {ObjV(("projectKey" :> StrV(<<"P", "J">>)) @@ ("action" :> act)
                 @@ ("issue" :> p) @@ ("offset" :> o) @@ ("limit" :> l)) :
              act \in {Undefined, ActionList, ActionCreate},
              p \in {Undefined, ObjV("summary" :> Word)},
              o \in {Undefined, IntV(2), IntV(-1)}, l \in {Undefined, IntV(2)}}
      [] name = "comments" ->
           {ObjV(("issueId" :> IntV(42)) @@ ("action" :> act)
                 @@ ("comment" :> p) @@ ("offset" :> o) @@ ("limit" :> l)) :
              act \in {Undefined, ActionList, ActionCreate},
              p \in {Undefined, ObjV("content" :> Word)},
              o \in {Undefined, IntV(2), IntV(-1)}, l \in {Undefined, IntV(2)}}

InitDispatch ==
    /\ env = [baseUrl |-> StrV(TxtBaseUrl), apiKey |-> StrV(TxtApiKey)]
    /\ boot = BootOff
    /\ client = BacklogClientNew(env).value
    /\ registered = {}
    /\ InvIdle
    /\ PgIdle
    /\ ErrIdle
    /\ MapIdle
    /\ ConcIdle

\* tool.execute(payload) up to the client's fetch, or to the tool's throw
ExecuteDirect(name, a) ==
    /\ pc = "idle"
    /\ tool' = name
    /\ args' = a
    /\ LET started == ExecuteStart(name, a) IN
         IF started.t = "request"
           THEN /\ pc' = "awaiting"
                /\ request' = started.request
                /\ netCalls' = netCalls + 1
                /\ UNCHANGED outcome
           ELSE /\ pc' = "done"
                /\ outcome' = started
                /\ UNCHANGED <<request, netCalls>>
    /\ clientLog' = IF pc' = "awaiting" THEN requestLog(request') ELSE {}
    /\ UNCHANGED <<response, pgVars, errVars, bootVars, mapVars, concVars>>

\* fetch resolves and execute returns or throws what the client gave
DirectRespond(status, body) ==
    /\ pc = "awaiting"
    /\ tool \in DispatchedTools
    /\ response' = [status |-> status, body |-> body]
    /\ LET resolved == clientRequest(response') IN
         outcome' = IF resolved.t = "throw" THEN resolved
                    ELSE ExecuteResume(tool, args, resolved.value)
    /\ pc' = "done"
    /\ clientLog' = clientLog \cup responseLog(request, response')
    /\ UNCHANGED <<tool, args, request, netCalls, pgVars, errVars, bootVars, mapVars, concVars>>

\* fetch rejects
DirectNetworkError ==
    /\ pc = "awaiting"
    /\ tool \in DispatchedTools
    /\ response' = [t |-> "rejected"]
    /\ outcome' = requestRejected(ErrorV(StrV(TxtFetchFailed)))
    /\ pc' = "done"
    /\ clientLog' = clientLog \cup rejectedLog(request, ErrorV(StrV(TxtFetchFailed)))
    /\ UNCHANGED <<tool, args, request, netCalls, pgVars, errVars, bootVars, mapVars, concVars>>

NextDispatch ==
    \/ \E name \in DispatchedTools : \E a \in DispatchInputs(name) :
         ExecuteDirect(name, a)
    \/ /\ pc = "awaiting"
       /\ \E status \in OkStatuses : \E body \in OkBodies(ResourceKind(tool)) :
             DirectRespond(status, body)
    \/ \E status \in FailedStatuses : \E body \in FailedBodies(status) :
          DirectRespond(status, body)
    \/ DirectNetworkError

SpecDispatch == InitDispatch /\ [][NextDispatch]_vars

-----------------------------------------------------------------------------
(* Concurrent invocations: the host calls registered tools while earlier   *)
(* calls still await their fetch. Each call of the registered execute has  *)
(* its own payload, result and error; the client is the one object they    *)
(* share.                                                                  *)

MaxInFlight == 2
Slots == 1..MaxInFlight
IdleSlot ==
    [pc |-> "idle", tool |-> "none", args |-> Undefined, request |-> Unset,
     response |-> Unset, outcome |-> Unset]

ConcurrentTools == {"getIssue", "listComments", "deleteComment"}
ConcurrentInputs(name) ==
    CASE name = "getIssue" -> {ObjV("issueIdOrKey" :> k) : k \in {KeyPadded, Blank}}
      [] name = "listComments" ->
           {ObjV(("issueId" :> IntV(42)) @@ ("offset" :> o)) :
              o \in {Undefined, IntV(1)}}
      [] name = "deleteComment" ->
           {ObjV(("issueId" :> IntV(42)) @@ ("commentId" :> c)) :
              c \in {IntV(7), IntV(9)}}
ConcurrentStatuses == {200, 204, 404, 429, 500}
ConcurrentBodies(kind) ==
    {SampleEntity(kind, 1), SamplePage(kind, 1),
     Unparsable(ErrorV(StrV(TxtUnexpectedToken)))}

InitConcurrent ==
    /\ env = [baseUrl |-> StrV(TxtBaseUrl), apiKey |-> StrV(TxtApiKey)]
    /\ boot = BootServing
    /\ client = BacklogClientNew(env).value
    /\ registered = {"ping"} \cup BacklogTools
    /\ running = [i \in Slots |-> IdleSlot]
    /\ InvIdle
    /\ PgIdle
    /\ ErrIdle
    /\ MapIdle

\* the host calls the registered execute of a Backlog tool as invocation i
InvokeSlot(i, name, a) ==
    /\ running[i].pc = "idle"
    /\ name \in registered
    /\ LET started == ExecuteStart(name, a) IN
         running' = [running EXCEPT ![i] =
            IF started.t = "request"
              THEN [pc |-> "awaiting", tool |-> name, args |-> a,
                    request |-> started.request, response |-> Unset,
                    outcome |-> Unset]
              ELSE [pc |-> "done", tool |-> name, args |-> a,
                    request |-> Unset, response |-> Unset,
                    outcome |-> WrapperOutcome(name, started)]]
    /\ UNCHANGED <<invVars, pgVars, errVars, bootVars, mapVars>>

\* as RespondSlot, with the payload kept in one place that the latest call
\* overwrites
RespondSlotShared(i, status, body) ==
    /\ running[i].pc = "awaiting"
    /\ LET resp == [status |-> status, body |-> body]
           latest == CHOOSE j \in Slots :
                        /\ running[j].pc # "idle"
                        /\ \A h \in Slots : running[h].pc # "idle" => h <= j
           resolved == clientRequest(resp)
           executed == IF resolved.t = "throw" THEN resolved
                       ELSE ExecuteResume(running[i].tool, running[latest].args,
                                          resolved.value)
       IN running' = [running EXCEPT ![i].pc = "done", ![i].response = resp,
                         ![i].outcome = WrapperOutcome(running[i].tool, executed)]
    /\ UNCHANGED <<invVars, pgVars, errVars, bootVars, mapVars>>

\* the fetch of invocation i resolves
RespondSlot(i, status, body) ==
    /\ running[i].pc = "awaiting"
    /\ LET resp == [status |-> status, body |-> body]
           resolved == clientRequest(resp)
           executed == IF resolved.t = "throw" THEN resolved
                       ELSE ExecuteResume(running[i].tool, running[i].args,
                                          resolved.value)
       IN running' = [running EXCEPT ![i].pc = "done", ![i].response = resp,
                         ![i].outcome = WrapperOutcome(running[i].tool, executed)]
    /\ UNCHANGED <<invVars, pgVars, errVars, bootVars, mapVars>>

\* the fetch of invocation i rejects
NetworkErrorSlot(i) ==
    /\ running[i].pc = "awaiting"
    /\ running' = [running EXCEPT ![i].pc = "done",
                      ![i].response = [t |-> "rejected"],
                      ![i].outcome = WrapperOutcome(running[i].tool,
                          requestRejected(ErrorV(StrV(TxtFetchFailed))))]
    /\ UNCHANGED <<invVars, pgVars, errVars, bootVars, mapVars>>

NextConcurrent ==
    \/ \E i \in Slots : \E name \in ConcurrentTools :
         \E a \in ConcurrentInputs(name) : InvokeSlot(i, name, a)
    \/ \E i \in Slots :
         /\ running[i].pc = "awaiting"
         /\ \E status \in ConcurrentStatuses :
              \E body \in ConcurrentBodies(ResourceKind(running[i].tool)) :
                RespondSlot(i, status, body)
    \/ \E i \in Slots : NetworkErrorSlot(i)

SpecConcurrent == InitConcurrent /\ [][NextConcurrent]_vars

-----------------------------------------------------------------------------
(* The response mappers on their own: each mapper applied to every entity  *)
(* its schema accepts, every optional field absent, null (where the schema *)
(* allows null) or present.                                                *)

Mappers == {"toIssueListItem", "toIssueDetails", "toCommentInfo",
            "toAttachmentInfo", "toWikiSummary", "toWikiDetails",
            "toActivityInfo"}
KindOf(m) ==
    CASE m \in {"toIssueListItem", "toIssueDetails"} -> "issue"
      [] m = "toCommentInfo" -> "comment"
      [] m = "toAttachmentInfo" -> "attachment"
      [] m \in {"toWikiSummary", "toWikiDetails"} -> "wiki"
      [] m = "toActivityInfo" -> "activity"
ApplyMapper(m, e) ==
    CASE m = "toIssueListItem" -> toIssueListItem(e)
      [] m = "toIssueDetails" -> toIssueDetails(e)
      [] m = "toCommentInfo" -> toCommentInfo(e)
      [] m = "toAttachmentInfo" -> toAttachmentInfo(e)
      [] m = "toWikiSummary" -> toWikiSummary(e)
      [] m = "toWikiDetails" -> toWikiDetails(e)
      [] m = "toActivityInfo" -> toActivityInfo(e)

\* the fields every entity of the kind carries
RequiredFields(kind) ==
    CASE kind = "issue" -> ("id" :> IntV(1)) @@ ("issueKey" :> KeyText(1))
                           @@ ("summary" :> Word)
      [] kind \in {"attachment", "wiki"} -> ("id" :> IntV(1)) @@ ("name" :> Word)
      [] kind \in {"comment", "activity"} -> ("id" :> IntV(1))

StringSamples == {Unset, Null, StampText}
NumberSamples == {Unset, IntV(3)}
RelationSamples ==
    {Unset, Null, EmptyObj, ObjV(("id" :> IntV(7)) @@ ("name" :> Word))}
TagSamples ==
    {Unset, ArrV(<<>>),
     ArrV(<<ObjV("name" :> Blank), EmptyObj, ObjV("name" :> KeyPadded)>>)}
ContentSamples == {Unset, Null, Word, ObjV("k" :> IntV(3))}

\* the optional fields of the kind, Unset standing for an absent key
OptionalFields(kind) ==
    CASE kind = "issue" ->
           [description : StringSamples, status : RelationSamples,
            assignee : RelationSamples, updated : StringSamples]
      [] kind = "comment" ->
           [content : StringSamples, createdUser : RelationSamples,
            created : StringSamples, updated : StringSamples]
      [] kind = "attachment" ->
           [size : NumberSamples, createdUser : RelationSamples,
            created : StringSamples]
      [] kind = "wiki" ->
           [projectId : NumberSamples, content : StringSamples,
            createdUser : RelationSamples, updatedUser : RelationSamples,
            created : StringSamples, updated : StringSamples,
            tags : TagSamples]
      [] kind = "activity" ->
           [type : NumberSamples, project : RelationSamples,
            content : ContentSamples, createdUser : RelationSamples,
            created : StringSamples]

RawEntities(kind) ==
    {ObjV(RequiredFields(kind)
          @@ [k \in {j \in DOMAIN r : r[j] # Unset} |-> r[k]]) :
       r \in OptionalFields(kind)}

InitMappers ==
    /\ MapIdle
    /\ ConcIdle
    /\ PgIdle
    /\ ErrIdle
    /\ InvIdle
    /\ BootIdle

\* schema.parse(raw) accepts the entity and the tool maps the parsed entity
MapEntity(m, e) ==
    /\ mapperName = "none"
    /\ EntityIssues(KindOf(m), e) = <<>>
    /\ mapperName' = m
    /\ entity' = e
    /\ shape' = ApplyMapper(m, e)
    /\ UNCHANGED <<pgVars, errVars, invVars, bootVars, concVars>>

NextMappers == \E m \in Mappers : \E e \in RawEntities(KindOf(m)) : MapEntity(m, e)

SpecMappers == InitMappers /\ [][NextMappers]_vars

-----------------------------------------------------------------------------
(* Properties.                                                             *)

\* the greatest integer i with i <= n / Den, stated without \div
FloorOf(n) ==
    CHOOSE i \in -(MaxNum + 1)..(MaxNum + 1) : i * Den <= n /\ n < (i + 1) * Den
MaxOf(a, b) == IF a >= b THEN a ELSE b

\* C6: normalizePagination maps an absent options object to an absent
\* result; otherwise a finite offset becomes max(0, floor(offset)) =
\* floor(max(0, offset)), a finite limit becomes max(1, floor(limit)) =
\* floor(max(1, limit)), a field that is absent, NaN or infinite is left out,
\* and the result is always a value (never an error).
C6_NormalizePagination ==
    pgNormalized # Unset =>
        IF pgOptions = Undefined THEN pgNormalized = Undefined
        ELSE /\ IsObject(pgNormalized)
             /\ Keys(pgNormalized) \subseteq {"offset", "limit"}
             /\ \A k \in {"offset", "limit"} :
                  LET v  == Get(pgOptions, k)
                      lo == IF k = "offset" THEN 0 ELSE 1
                  IN /\ v.t = "num" =>
                          /\ k \in Keys(pgNormalized)
                          /\ pgNormalized.f[k] = IntV(MaxOf(lo, FloorOf(v.n)))
                          /\ pgNormalized.f[k] = IntV(FloorOf(MaxOf(lo * Den, v.n)))
                     /\ v.t \in {"undefined", "NaN", "inf", "-inf"} =>
                          k \notin Keys(pgNormalized)

\* C6 witness: offset -(Den+1)/Den (negative, fractional) and limit NaN were
\* normalized to {offset: 0}.
C6_Witness ==
    /\ Get(pgOptions, "offset") = NumV(0 - (Den + 1))
    /\ Get(pgOptions, "limit") = NaN
    /\ pgNormalized = ObjV("offset" :> IntV(0))

\* C7: buildPaginationParams emits key offset exactly when the normalized
\* offset is present and key count (never limit) exactly when the normalized
\* limit is present, each with the normalized value, and returns undefined
\* (never an empty object) when neither is present or the input is absent.
C7_BuildPaginationParams ==
    pgParams # Unset =>
        LET offsetIn == Get(pgOptions, "offset")
            limitIn  == Get(pgOptions, "limit")
            hasOffset == pgOptions # Undefined /\ offsetIn.t = "num"
            hasLimit  == pgOptions # Undefined /\ limitIn.t = "num"
        IN /\ pgParams # EmptyObj
           /\ (~hasOffset /\ ~hasLimit) <=> pgParams = Undefined
           /\ pgParams # Undefined =>
                /\ IsObject(pgParams)
                /\ Keys(pgParams) \subseteq {"offset", "count"}
                /\ "offset" \in Keys(pgParams) <=> hasOffset
                /\ "count" \in Keys(pgParams) <=> hasLimit
                /\ hasOffset =>
                     pgParams.f["offset"] = IntV(MaxOf(0, FloorOf(offsetIn.n)))
                /\ hasLimit =>
                     pgParams.f["count"] = IntV(MaxOf(1, FloorOf(limitIn.n)))

\* C7 witness: {limit: 2 + 1/Den} alone became {count: 2}.
C7_Witness ==
    /\ pgOptions = ObjV("limit" :> NumV(2 * Den + 1))
    /\ pgParams = ObjV("count" :> IntV(2))

\* the class the status mapping assigns to a 4xx or 5xx status
ExpectedCode(s) ==
    CASE s = 401 -> UNAUTHENTICATED
      [] s = 403 -> PERMISSION_DENIED
      [] s = 404 -> InvalidParams
      [] s = 429 -> UNAVAILABLE
      [] s >= 400 /\ s < 500 /\ s \notin {401, 403, 404, 429} -> InvalidParams
      [] s >= 500 -> InternalError
TaxonomyCodes ==
    {UNAUTHENTICATED, PERMISSION_DENIED, UNAVAILABLE, InvalidParams, InternalError}

\* C1: for an error that reaches the status rules with a known status S
\* (attached to a BacklogError, or written into the message as the client
\* writes it), handleError throws exactly one classified error whose class
\* depends on S alone: 401 UNAUTHENTICATED, 403 PERMISSION_DENIED, 404
\* INVALID_ARGUMENT, 429 UNAVAILABLE whatever the message says, any other
\* 4xx INVALID_ARGUMENT, any 5xx INTERNAL.
C1_StatusMapping ==
    (errThrown # Unset /\ errInput.error.t \in {"BacklogError", "Error"}) =>
        /\ errThrown.t = "McpError"
        /\ errThrown.code \in TaxonomyCodes
        /\ \A s \in 400..599 :
             (\/ (errInput.error.t = "BacklogError" /\ errInput.error.status = IntV(s))
              \/ (/\ errInput.error.message = RequestFailedMessage(s)
                  /\ (errInput.error.t = "BacklogError" =>
                         errInput.error.status = Undefined)))
             => errThrown.code = ExpectedCode(s)

\* C1 witness: a BacklogError with status 429 whose message names status 404
\* was classified UNAVAILABLE.
C1_Witness ==
    /\ errThrown # Unset
    /\ errInput.error.t = "BacklogError"
    /\ errInput.error.status = IntV(429)
    /\ errInput.error.message = RequestFailedMessage(404)
    /\ errThrown.code = UNAVAILABLE

\* the class the classifier's rules assign to any status: the status mapping
\* on 4xx and 5xx, the INTERNAL fallback elsewhere
MappedCode(s) == IF s >= 400 THEN ExpectedCode(s) ELSE InternalError

\* upstream answered the invocation's request and the invocation is over
Responded == pc = "done" /\ "status" \in DOMAIN response
\* what the registered execute handed back on success
StructuredContent == Get(outcome.value, "structuredContent")

\* C2: when upstream answers any tool's request with a non-2xx status S
\* other than 429, the invocation ends in a classified error (McpError)
\* whose data carries status = S and whose code is the class the status
\* mapping gives S, although the client put S only into the text of the
\* message "Backlog request failed with status S".
C2_FailedStatusSurfaces ==
    (Responded /\ ~ResponseOk(response.status) /\ response.status # 429) =>
        /\ clientRequest(response) =
             Thrown(ErrorV(RequestFailedMessage(response.status)))
        /\ outcome.t = "throw"
        /\ outcome.error.t = "McpError"
        /\ Get(outcome.error.data, "status") = IntV(response.status)
        /\ outcome.error.code = MappedCode(response.status)

C2_Witness ==
    /\ Responded
    /\ tool = "getIssue"
    /\ response.status = 503
    /\ outcome.t = "throw"
    /\ outcome.error.code = InternalError
    /\ Get(outcome.error.data, "status") = IntV(503)

\* C3: when upstream answers 429, whatever the body, the client rejects with
\* the string 'RATE_LIMIT' itself, and the invocation ends in the McpError
\* UNAVAILABLE (-32004) with message "[tool] Backlog API rate limit
\* exceeded." and data exactly {status: 429}.
C3_RateLimitSentinel ==
    (Responded /\ response.status = 429) =>
        /\ clientRequest(response) = Thrown(StrV(TxtRateLimitToken))
        /\ outcome =
             Thrown(McpError(-32004,
                      StrV(<<"[">> \o ToolNameText(tool) \o <<"]", " ">>
                           \o TxtRateLimitExceeded),
                      ObjV("status" :> IntV(429))))

C3_Witness ==
    /\ Responded
    /\ tool = "searchWiki"
    /\ response.status = 429
    /\ response.body = ObjV("message" :> Word)
    /\ outcome.t = "throw"
    /\ outcome.error.code = UNAVAILABLE
    /\ Keys(outcome.error.data) = {"status"}

\* C4: every invocation of a registered tool that fails ends in a McpError
\* carrying one of the taxonomy codes: no raw Error, ZodError or sentinel
\* reaches the caller.
C4_EveryFailureClassified ==
    (pc = "done" /\ outcome.t = "throw") =>
        /\ outcome.error.t = "McpError"
        /\ outcome.error.code \in TaxonomyCodes

\* every failure of a tool registered through the wrapper is classified
WrappedFailuresClassified ==
    (pc = "done" /\ tool \in BacklogTools /\ outcome.t = "throw") =>
        /\ outcome.error.t = "McpError"
        /\ outcome.error.code \in TaxonomyCodes

PaginatedTools == {"listComments", "searchWiki", "activities"}
\* the whole number a valid offset or limit argument stands for
WholeOf(v) == v.n \div Den
\* the next-offset rule on the arguments and the count upstream returned
RuleNextOffset(offset, limit, n) ==
    IF limit # Undefined /\ n = WholeOf(limit)
      THEN IntV((IF offset = Undefined THEN 0 ELSE WholeOf(offset)) + WholeOf(limit))
      ELSE Null

\* C5: listComments, searchWiki and activities, called with offset o (0 when
\* absent) and limit l and answered with n items, return nextOffset = o + l
\* exactly when l is given and n = l, and null otherwise.
C5_NextOffset ==
    (Responded /\ tool \in PaginatedTools /\ outcome.t = "return") =>
        /\ IsArray(response.body)
        /\ Get(StructuredContent, "nextOffset") =
             RuleNextOffset(Get(args, "offset"), Get(args, "limit"),
                            Len(response.body.items))

C5_Witness ==
    /\ Responded
    /\ tool = "listComments"
    /\ Get(args, "offset") = IntV(1)
    /\ Get(args, "limit") = IntV(2)
    /\ outcome.t = "return"
    /\ Len(response.body.items) = 2
    /\ Get(StructuredContent, "nextOffset") = IntV(3)

\* the invocation is a list operation
IsListOperation ==
    \/ tool \in {"listIssues", "listComments", "searchWiki", "activities", "wiki"}
    \/ tool = "issues" /\ ActionOf(args) # ActionCreate

\* C8: every list operation that succeeds returns a result carrying a
\* nextOffset computed by the next-offset rule.
C8_EveryListCarriesNextOffset ==
    (Responded /\ IsListOperation /\ outcome.t = "return"
       /\ IsArray(response.body) /\ response.status \in {200, 201}) =>
        /\ IsObject(StructuredContent)
        /\ "nextOffset" \in Keys(StructuredContent)
        /\ (tool \in PaginatedTools =>
              StructuredContent.f["nextOffset"] =
                RuleNextOffset(Get(args, "offset"), Get(args, "limit"),
                               Len(response.body.items)))

\* the arguments break the input contract: an id that is no positive
\* integer, a key or identifier empty after trimming, a negative or
\* fractional offset, a limit that is no positive integer
IdArguments == {"issueId", "commentId", "attachmentId", "wikiId", "projectId",
                "statusId"}
KeyArguments == {"projectKey", "issueIdOrKey", "projectKeyOrId"}
ViolatesInputContract(a) ==
    \/ \E k \in IdArguments \cap Keys(a) :
          IsNumberType(a.f[k]) /\ ~(IsInteger(a.f[k]) /\ a.f[k].n > 0)
    \/ \E k \in KeyArguments \cap Keys(a) :
          \/ IsString(a.f[k]) /\ Trim(a.f[k].s) = <<>>
          \/ IsNumberType(a.f[k]) /\ ~(IsInteger(a.f[k]) /\ a.f[k].n > 0)
    \/ IsNumberType(Get(a, "offset"))
         /\ ~(IsInteger(Get(a, "offset")) /\ Get(a, "offset").n >= 0)
    \/ IsNumberType(Get(a, "limit"))
         /\ ~(IsInteger(Get(a, "limit")) /\ Get(a, "limit").n > 0)

\* C9: an invocation of any tool whose arguments break the input contract
\* issues no request.
C9_RejectedBeforeNetwork ==
    (pc # "idle" /\ tool \in BacklogTools /\ ViolatesInputContract(args)) =>
        netCalls = 0

\* the tools that parse their input reject such arguments before any request
ParsingToolsRejectBeforeNetwork ==
    (pc # "idle" /\ tool \in BacklogTools \ DispatcherTools
       /\ ViolatesInputContract(args)) => netCalls = 0

\* the tools whose result does not come from the response
DeleteOperation ==
    \/ tool \in {"deleteIssue", "deleteComment", "deleteWiki"}
    \/ tool = "attachments" /\ ActionOf(args) = ActionDelete
\* the response body breaks the output schema of the resource
BreaksOutputSchema ==
    /\ response.body.t # "unparsable"
    /\ IF IsListOperation \/ (tool = "attachments" /\ ActionOf(args) = ActionList)
         THEN ListIssues(ResourceKind(tool), response.body) # <<>>
         ELSE EntityIssues(ResourceKind(tool), response.body) # <<>>

\* C10: for every tool that reads the response, a 200 or 201 whose body
\* breaks the output schema ends the invocation in a validation failure,
\* and nothing is returned.
C10_MalformedResponseFails ==
    (Responded /\ tool \in BacklogTools /\ ~DeleteOperation
       /\ response.status \in {200, 201} /\ BreaksOutputSchema) =>
        /\ outcome.t = "throw"
        /\ outcome.error.t = "McpError"
        /\ outcome.error.code = InvalidParams
        /\ "issues" \in Keys(outcome.error.data)

\* the tools that parse the response fail on such a body
ParsingToolsFail ==
    (Responded /\ tool \in BacklogTools \ DispatcherTools /\ ~DeleteOperation
       /\ response.status \in {200, 201} /\ BreaksOutputSchema) =>
        /\ outcome.t = "throw"
        /\ outcome.error.t = "McpError"
        /\ outcome.error.code = InvalidParams
        /\ "issues" \in Keys(outcome.error.data)

UpdateTools == {"updateIssue", "updateComment", "updateWiki"}
\* the field of the tool's update payload that is trimmed and must not be
\* empty
TrimmedField(name) ==
    CASE name \in {"createIssue", "updateIssue"} -> "summary"
      [] name = "updateComment" -> "content"
      [] name \in {"createWiki", "updateWiki"} -> "name"
\* every identifier among the arguments is given and meets the contract
IdentifiersValid(a) ==
    /\ ~ViolatesInputContract(a)
    /\ \A k \in (IdArguments \cup KeyArguments) \cap Keys(a) : a.f[k] # Undefined
DefinedKeys(o) == {k \in Keys(o) : o.f[k] # Undefined}
\* the value of field k is valid for the tool's update schema
UpdateFieldValid(name, k, v) ==
    IF k = TrimmedField(name) THEN IsString(v) /\ Trim(v.s) # <<>>
    ELSE IF k = "notifiedUserIds"
      THEN IsArray(v) /\ \A i \in 1..Len(v.items) :
                            IsInteger(v.items[i]) /\ v.items[i].n > 0
    ELSE IsString(v)

\* C12: updateIssue, updateComment and updateWiki reject an updates object
\* whose fields are all absent or undefined ({} included) as invalid
\* parameters without issuing a request; with exactly one field set to a
\* valid value (and valid identifiers) they issue one PATCH whose body is
\* that field.
C12_UpdatePayloadValidation ==
    (pc # "idle" /\ tool \in UpdateTools /\ IsObject(Get(args, "updates"))) =>
        LET updates == Get(args, "updates") IN
        /\ DefinedKeys(updates) = {} =>
             /\ netCalls = 0
             /\ outcome.t = "throw"
             /\ outcome.error.t = "McpError"
             /\ outcome.error.code = InvalidParams
             /\ "issues" \in Keys(outcome.error.data)
        /\ \A k \in Keys(updates) :
             (/\ DefinedKeys(updates) = {k}
              /\ UpdateFieldValid(tool, k, updates.f[k])
              /\ IdentifiersValid(args)) =>
                /\ netCalls = 1
                /\ request.method = "PATCH"
                /\ request.body =
                     ObjV(k :> IF k = TrimmedField(tool)
                                 THEN StrV(Trim(updates.f[k].s))
                                 ELSE updates.f[k])

C12_Witness ==
    /\ pc = "done"
    /\ tool = "updateComment"
    /\ Get(args, "updates") = ObjV("content" :> Undefined)
    /\ IdentifiersValid(args)
    /\ netCalls = 0
    /\ outcome.t = "throw"
    /\ outcome.error.code = InvalidParams

SanitizingTools == {"createIssue", "updateIssue", "updateComment",
                    "transitionIssue", "createWiki", "updateWiki"}
\* the payload the tool's input schema yields for the body
ValidatedPayload(name, a) ==
    CASE name = "createIssue" -> ParsedObject(Get(a, "issue"), {"summary"})
      [] name \in UpdateTools ->
           ParsedObject(Get(a, "updates"), {TrimmedField(name)})
      [] name = "transitionIssue" ->
           ObjV(("statusId" :> Get(a, "statusId"))
                @@ ("comment" :> Trimmed(Get(a, "comment"))))
      [] name = "createWiki" -> ParsedObject(a, {"name"})

\* C13: the body createIssue, updateIssue, updateComment, transitionIssue,
\* createWiki and updateWiki hand to the client has no key whose value is
\* undefined and has every key of the validated payload whose value is
\* defined, with that value.
C13_UndefinedStripped ==
    (pc # "idle" /\ netCalls = 1 /\ tool \in SanitizingTools) =>
        LET payload == ValidatedPayload(tool, args) IN
        /\ IsObject(request.body)
        /\ \A k \in Keys(request.body) : request.body.f[k] # Undefined
        /\ Keys(request.body) = DefinedKeys(payload)
        /\ \A k \in Keys(request.body) : request.body.f[k] = payload.f[k]

C13_Witness ==
    /\ pc = "awaiting"
    /\ tool = "createIssue"
    /\ Get(args, "issue") =
         ObjV(("summary" :> KeyPadded) @@ ("description" :> Undefined))
    /\ request.body = ObjV("summary" :> StrV(<<"P", "J">>))

\* the keys of each public shape
PublicKeys(m) ==
    CASE m = "toIssueListItem" ->
           {"id", "issueKey", "summary", "status", "assignee", "updated"}
      [] m = "toIssueDetails" ->
           {"id", "issueKey", "summary", "description", "status", "assignee"}
      [] m = "toCommentInfo" -> {"id", "content", "author", "created", "updated"}
      [] m = "toAttachmentInfo" -> {"id", "name", "size", "created", "createdBy"}
      [] m = "toWikiSummary" -> {"id", "projectId", "name", "updated", "tags"}
      [] m = "toWikiDetails" ->
           {"id", "projectId", "name", "content", "created", "updated",
            "createdBy", "updatedBy", "tags"}
      [] m = "toActivityInfo" ->
           {"id", "type", "project", "created", "createdBy", "details"}
\* the raw relation a public field is projected from
RawRelation(k) ==
    CASE k \in {"author", "createdBy"} -> "createdUser"
      [] k = "updatedBy" -> "updatedUser"
      [] OTHER -> k
\* the public fields projected to the relation's name, and to an object
NameFields == {"status", "assignee"}
ObjectFields == {"author", "createdBy", "updatedBy", "project"}
Missing(v) == v \in {Undefined, Null}
\* what a public field holds when nothing optional is given
EmptyValue(k) ==
    CASE k = "tags" -> ArrV(<<>>)
      [] k = "details" -> EmptyObj
      [] OTHER -> Null
\* no undefined anywhere in a public value
RECURSIVE NoUndefined(_)
NoUndefined(v) ==
    /\ v # Undefined
    /\ IsObject(v) => \A k \in Keys(v) : NoUndefined(v.f[k])
    /\ IsArray(v) => \A i \in 1..Len(v.items) : NoUndefined(v.items[i])

\* C14: every response mapper returns, for every entity its schema accepts,
\* a public shape with all its keys and no undefined value; with every
\* optional raw field absent or null the optional public fields are null
\* (tags the empty list, details the empty map); a relation that is present
\* is projected to its name (status, assignee) or to its id and name, one
\* that is absent or null to null.
C14_MappersTotal ==
    mapperName # "none" =>
        /\ IsObject(shape)
        /\ Keys(shape) = PublicKeys(mapperName)
        /\ NoUndefined(shape)
        /\ (\A k \in Keys(entity) \ DOMAIN RequiredFields(KindOf(mapperName)) :
               entity.f[k] = Null) =>
             \A k \in Keys(shape) \ DOMAIN RequiredFields(KindOf(mapperName)) :
                shape.f[k] = EmptyValue(k)
        /\ \A k \in Keys(shape) \cap NameFields :
             LET relation == Get(entity, RawRelation(k)) IN
             shape.f[k] = IF Missing(relation) \/ Missing(Get(relation, "name"))
                            THEN Null ELSE Get(relation, "name")
        /\ \A k \in Keys(shape) \cap ObjectFields :
             LET relation == Get(entity, RawRelation(k)) IN
             IF Missing(relation) THEN shape.f[k] = Null
             ELSE /\ IsObject(shape.f[k])
                  /\ {"id", "name"} \subseteq Keys(shape.f[k])
                  /\ \A j \in {"id", "name"} :
                       shape.f[k].f[j] = IF Missing(Get(relation, j))
                                           THEN Null ELSE Get(relation, j)

C14_Witness ==
    /\ mapperName = "toWikiDetails"
    /\ entity = ObjV(RequiredFields("wiki") @@ ("content" :> Null)
                     @@ ("updatedUser" :> Null))
    /\ shape.f["content"] = Null
    /\ shape.f["createdBy"] = Null
    /\ shape.f["tags"] = ArrV(<<>>)

\* the number of segments of the route a tool requests
RouteDepth(name, a) ==
    CASE name = "createWiki" -> 1
      [] name \in {"getIssue", "updateIssue", "deleteIssue", "getWiki",
                   "updateWiki", "deleteWiki"} -> 2
      [] name \in {"updateComment", "deleteComment"} -> 4
      [] name = "attachments" /\ Get(a, "action") = ActionDelete -> 4
      [] OTHER -> 3
SlashCount(path) == Cardinality({i \in 1..Len(path) : path[i] = "/"})
\* the path holds the route's segments and nothing that is not encoded
PathWellFormed(name, a, path) ==
    /\ \A i \in 1..Len(path) : path[i] \in UnreservedChars \cup {"/", "%"}
    /\ SlashCount(path) = RouteDepth(name, a)
\* the tools that hand the project key to the client's helper methods, which
\* interpolate it as it is
InterpolatingTools == {"issues", "wiki", "activities"}

\* C15: every value a tool places into a request path is percent-encoded
\* before the client receives it: the path has exactly the segments of the
\* tool's route and no character outside the unreserved ones, '/' between
\* segments and '%'.
C15_PathValuesEncoded ==
    (pc # "idle" /\ netCalls = 1) => PathWellFormed(tool, args, request.path)

\* the tools that build their path themselves encode what they place in it
EncodingToolsKeepOneSegment ==
    (pc # "idle" /\ netCalls = 1 /\ tool \notin InterpolatingTools) =>
        PathWellFormed(tool, args, request.path)

\* C16: every request the client issues carries the API key it was
\* constructed with, as the header X-API-Key and as the query parameter
\* apiKey; an apiKey entry of the caller's query does not replace it; the key
\* is never empty.
C16_ApiKeyOnEveryRequest ==
    request # Unset =>
        /\ client.t = "client"
        /\ client.apiKey = env.apiKey
        /\ IsString(env.apiKey) /\ env.apiKey.s # <<>>
        /\ Get(request.headers, "X-API-Key") = env.apiKey
        /\ Get(request.query, "apiKey") = env.apiKey

C16_Witness ==
    /\ pc = "awaiting"
    /\ Get(Get(args, "query"), "apiKey") = StrV(TxtForgedKey)
    /\ env.apiKey = StrV(TxtOtherKey)
    /\ Get(request.query, "apiKey") = StrV(TxtOtherKey)
    /\ Get(request.headers, "X-API-Key") = StrV(TxtOtherKey)

\* C17: on a 2xx response the client returns undefined at 204 and 205
\* whatever the body is, the parsed body at any other 2xx, and throws the
\* parse error itself when the body does not parse.
C17_SuccessHandling ==
    (pc = "done" /\ "status" \in DOMAIN response /\ ResponseOk(response.status)) =>
        IF response.status \in {204, 205} THEN outcome = Returned(Undefined)
        ELSE IF response.body.t = "unparsable"
          THEN outcome = Thrown(response.body.error)
        ELSE outcome = Returned(response.body)

C17_Witness ==
    /\ pc = "done"
    /\ "status" \in DOMAIN response
    /\ response.status = 201
    /\ response.body = Unparsable(ErrorV(StrV(TxtUnexpectedEnd)))
    /\ outcome = Thrown(ErrorV(StrV(TxtUnexpectedEnd)))

\* the key of a dispatcher's create payload, and its route
PayloadKey(name) == IF name = "issues" THEN "issue" ELSE "comment"
DispatchPath(name, a) ==
    IF name = "issues"
      THEN PathOf(<<TxtProjects, Get(a, "projectKey").s, TxtIssues>>)
      ELSE PathOf(<<TxtIssues, NatToChars(WholeOf(Get(a, "issueId"))), TxtComments>>)
\* the query of a list request: the key, and the offset and count of what is
\* left of the payload
ListQuery(a) ==
    LET params == buildPaginationParams(
                    ObjV([k \in Keys(a) \cap {"offset", "limit"} |-> a.f[k]]))
    IN ObjV(("apiKey" :> ConfigApiKey) @@
            (IF IsObject(params)
               THEN [k \in Keys(params) |-> StrV(ToStringChars(params.f[k]))]
               ELSE NoKeys))

\* C18: the issues and comments dispatchers issue, for an absent action or
\* 'list', the list request (a GET without body) with the pagination the
\* rest of the payload gives; for 'create' with a payload, one create request
\* (a POST) whose body is that payload; for 'create' without a payload they
\* throw and issue no request.
C18_DispatchByAction ==
    (pc # "idle" /\ tool \in DispatchedTools) =>
        LET payload == Get(args, PayloadKey(tool)) IN
        IF Get(args, "action") = ActionCreate
          THEN IF payload = Undefined
                 THEN /\ netCalls = 0
                      /\ pc = "done"
                      /\ outcome.t = "throw"
                      /\ outcome.error.t = "Error"
                 ELSE /\ netCalls = 1
                      /\ request.method = "POST"
                      /\ request.path = DispatchPath(tool, args)
                      /\ request.body = payload
          ELSE /\ netCalls = 1
               /\ request.method = "GET"
               /\ request.path = DispatchPath(tool, args)
               /\ request.body = Undefined
               /\ request.query = ListQuery(args)

C18_Witness ==
    /\ pc = "done"
    /\ tool = "comments"
    /\ Get(args, "action") = ActionCreate
    /\ Get(args, "comment") = Undefined
    /\ netCalls = 0
    /\ outcome = Thrown(ErrorV(StrV(TxtCommentPayloadRequired)))

\* C19: 'create' without a payload, once the wrapper has classified it, is
\* an invalid-parameters failure and not an internal one.
C19_MissingPayloadIsInvalidArgument ==
    (pc = "done" /\ tool = "issues" /\ Get(args, "action") = ActionCreate
     /\ Get(args, "issue") = Undefined) =>
        /\ outcome.t = "throw"
        /\ outcome.error.t = "McpError"
        /\ outcome.error.code = InvalidParams

\* what the wrapper does make of it: a failure, with the internal code
MissingPayloadFailsAsInternal ==
    (pc = "done" /\ tool = "issues" /\ Get(args, "action") = ActionCreate
     /\ Get(args, "issue") = Undefined) =>
        /\ netCalls = 0
        /\ outcome.t = "throw"
        /\ outcome.error.t = "McpError"
        /\ outcome.error.code = InternalError

\* a required setting that is missing or empty
SettingMissing(v) == v \in {Undefined, StrV(<<>>)}

\* C20: with the base URL or the API key missing or empty, startup ends in a
\* fatal error: the client's constructor is never reached, no Backlog tool is
\* registered, the server never serves, and so no invocation ever runs.
C20_MissingSettingIsFatal ==
    (SettingMissing(env.baseUrl) \/ SettingMissing(env.apiKey)) =>
        /\ boot = BootStarting \/ (boot.t = "fatal" /\ boot.error.t = "Error")
        /\ client = Unset
        /\ registered \cap BacklogTools = {}
        /\ pc = "idle"
        /\ netCalls = 0
        /\ outcome = Unset

C20_Witness ==
    /\ boot.t = "fatal"
    /\ env.baseUrl = StrV(TxtBaseUrl)
    /\ env.apiKey = StrV(<<>>)
    /\ client = Unset
    /\ registered = {"ping"}

\* "[T] "
ToolPrefix(toolName) == <<"[">> \o toolName.s \o <<"]", " ">>
BeginsWith(cs, prefix) ==
    Len(cs) >= Len(prefix) /\ SubSeq(cs, 1, Len(prefix)) = prefix
\* the status the text of the sample messages carries, by the pattern
\* "status", whitespace, three digits
StatusInText(message) ==
    CASE message = StrV(TxtUpperStatus) -> IntV(401)
      [] message = StrV(TxtTwoDigitThenStatus) -> IntV(503)
      [] message = StrV(TxtLongStatus) -> IntV(429)
      [] \E s \in StatusCodes : message = RequestFailedMessage(s) ->
           IntV(CHOOSE s \in StatusCodes : message = RequestFailedMessage(s))
      [] OTHER -> Undefined
\* the HTTP status known of an error: fixed for the sentinel, attached to a
\* BacklogError, or else written in the message
KnownStatus(error) ==
    IF error = RATE_LIMIT_TOKEN THEN IntV(429)
    ELSE IF error.t = "BacklogError" /\ error.status # Undefined THEN error.status
    ELSE IF error.t \in {"BacklogError", "Error"} THEN StatusInText(error.message)
    ELSE Undefined

\* C21: the error handleError produces for a failure in tool T (anything but
\* an already classified error, which passes through) has a message that
\* begins with "[T] ", and its data holds status = S whenever the status S is
\* known: attached, recovered from the message, or 429 for the sentinel.
C21_PrefixAndStatus ==
    (errThrown # Unset /\ errInput.toolName # Undefined
     /\ errInput.error.t # "McpError") =>
        /\ errThrown.t = "McpError"
        /\ BeginsWith(errThrown.message.s, ToolPrefix(errInput.toolName))
        /\ KnownStatus(errInput.error) # Undefined =>
             Get(errThrown.data, "status") = KnownStatus(errInput.error)

C21_Witness ==
    /\ errThrown # Unset
    /\ errInput.toolName = StrV(TxtListIssues)
    /\ errInput.error = ErrorV(StrV(TxtTwoDigitThenStatus))
    /\ BeginsWith(errThrown.message.s, <<"[", "l", "i", "s", "t">>)
    /\ Get(errThrown.data, "status") = IntV(503)

\* upstream answered with a failed status and a body that is not empty
FailedWithDetail ==
    /\ Responded
    /\ ~ResponseOk(response.status)
    /\ response.body # StrV(<<>>)

\* C22: when upstream answers a failed status with a non-empty body, the
\* error the caller sees holds that body in its data.
C22_UpstreamDetailRetained ==
    FailedWithDetail =>
        /\ outcome.t = "throw"
        /\ outcome.error.t = "McpError"
        /\ \E k \in Keys(outcome.error.data) :
              outcome.error.data.f[k] = response.body

\* what the data of that error does hold: the status, and for every status
\* but 429 the client's Error as the cause; the body is in neither
UpstreamDetailDropped ==
    FailedWithDetail =>
        /\ outcome.t = "throw"
        /\ outcome.error.t = "McpError"
        /\ outcome.error.data =
             IF response.status = 429 THEN ObjV("status" :> IntV(429))
             ELSE ObjV(("status" :> IntV(response.status))
                       @@ ("cause" :> ErrorV(RequestFailedMessage(response.status))))

\* what invocation r shows had it run alone: its request from its own
\* arguments, its outcome from its own arguments and its own response
RanAlone(r) ==
    LET started == ExecuteStart(r.tool, r.args) IN
    /\ r.request = IF started.t = "request" THEN started.request ELSE Unset
    /\ r.pc = "done" =>
         r.outcome =
           WrapperOutcome(r.tool,
             IF started.t # "request" THEN started
             ELSE IF r.response = [t |-> "rejected"]
               THEN requestRejected(ErrorV(StrV(TxtFetchFailed)))
             ELSE IF clientRequest(r.response).t = "throw"
               THEN clientRequest(r.response)
             ELSE ExecuteResume(r.tool, r.args, clientRequest(r.response).value))

\* C23: however concurrent invocations interleave, each one's request and
\* result are those it has on its own, from its own arguments and its own
\* response, and the client keeps the base URL and the key it was
\* constructed with.
C23_InvocationsIndependent ==
    /\ \A i \in DOMAIN running : running[i].pc # "idle" => RanAlone(running[i])
    /\ running # <<>> => client = BacklogClientNew(env).value

C23_Witness ==
    /\ running # <<>>
    /\ running[1].pc = "done" /\ running[2].pc = "done"
    /\ running[1].tool = "deleteComment" /\ running[2].tool = "deleteComment"
    /\ running[1].args # running[2].args
    /\ running[1].response = [t |-> "rejected"]
    /\ "status" \in DOMAIN running[2].response
    /\ running[2].response.status = 204
    /\ running[2].outcome.t = "return"

\* the sample base URLs as configured, normalized: trimmed, one slash at the
\* end
ExpectedBase(baseUrl) ==
    CASE baseUrl \in {StrV(TxtBaseUrl), StrV(TxtBaseUrlSlash)} ->
           <<"h", "t", "t", "p", ":", "/", "/", "b", "/">>
      [] baseUrl \in {StrV(TxtBaseUrlPrefix), StrV(TxtBaseUrlPadded)} ->
           <<"h", "t", "t", "p", ":", "/", "/", "b", "/", "a", "p", "i", "/">>
\* the text of the sample query values
TextOf(v) ==
    CASE v = IntV(0) -> <<"0">>
      [] v = IntV(2) -> <<"2">>
      [] v = BoolV(FALSE) -> <<"f", "a", "l", "s", "e">>
      [] IsString(v) -> v.s

RECURSIVE FormEncoded(_)
FormEncoded(cs) ==
    IF cs = <<>> THEN <<>>
    ELSE (IF Head(cs) = " " THEN <<"+">>
          ELSE IF Head(cs) \in UnreservedChars \cup {"*", "-", ".", "_"}
            THEN <<Head(cs)>>
          ELSE PercentEncoded(Head(cs))) \o FormEncoded(Tail(cs))

\* cs has sub as a substring
Contains(cs, sub) ==
    \E i \in 1..(Len(cs) - Len(sub) + 1) : SubSeq(cs, i, i + Len(sub) - 1) = sub

\* the variable parts of the text of a logged line: the resolved URL, each
\* query value as serialised after "name=", the status or error message
LinePieces(line) ==
    {line.url, line.detail}
      \cup {FormEncoded(line.query.f[k].s) : k \in Keys(line.query)}

\* C24: the configured API key appears in no line the client logs while a
\* request is built, executed or fails.
C24_ApiKeyNeverLogged ==
    \A line \in clientLog :
        \A piece \in LinePieces(line) : ~Contains(piece, ConfigApiKey.s)

\* every line the client logs has the URL in it, whose query ends in
\* apiKey=<the configured key>
ApiKeyInEveryLine ==
    \A line \in clientLog :
        /\ Get(line.query, "apiKey") = ConfigApiKey
        /\ Contains(FormEncoded(line.query.f["apiKey"].s), ConfigApiKey.s)

\* body carries a summary that is a string with something left after trimming
SummaryPresent(body) ==
    /\ IsObject(body)
    /\ "summary" \in Keys(body)
    /\ IsString(body.f["summary"])
    /\ Trim(body.f["summary"].s) # <<>>
\* the request in flight creates an issue / updates one
CreatesIssue ==
    /\ request # Unset
    /\ request.method = "POST"
    /\ \/ tool = "createIssue"
       \/ tool = "issues" /\ ActionOf(args) = ActionCreate
UpdatesIssue == request # Unset /\ tool = "updateIssue" /\ request.method = "PATCH"

\* C25: the body of every create request of an issue tool (createIssue, the
\* create action of issues) carries a summary that is not empty after
\* trimming, and so does every update body that carries a summary.
C25_SummaryEnforcedOnWrite ==
    /\ CreatesIssue => SummaryPresent(request.body)
    /\ (UpdatesIssue /\ "summary" \in Keys(request.body)) =>
          SummaryPresent(request.body)

\* createIssue and updateIssue enforce the summary, and send it trimmed; the
\* create action of issues sends the payload it was given
SummaryEnforcedWhereParsed ==
    /\ (CreatesIssue /\ tool = "createIssue") =>
          SummaryPresent(request.body)
            /\ request.body.f["summary"] = Trimmed(Get(args, "issue").f["summary"])
    /\ (UpdatesIssue /\ "summary" \in Keys(request.body)) =>
          SummaryPresent(request.body)
    /\ (CreatesIssue /\ tool = "issues") => request.body = Get(args, "issue")

\* C26: the classifier's rules apply in order and the first that matches
\* wins: an error already classified is thrown as it is (so classifying the
\* outcome again changes nothing); then the rate-limit sentinel is
\* UNAVAILABLE with status 429; then a validation failure is
\* INVALID_ARGUMENT even when its text names a status; then the status
\* rules, where a status attached to the error wins over one written in its
\* message.
C26_ClassificationPriority ==
    errThrown # Unset =>
        LET error == errInput.error IN
        /\ error.t = "McpError" => errThrown = error
        /\ handleError(errThrown, errInput.toolName, errInput.fallbackMessage)
             = errThrown
        /\ error = RATE_LIMIT_TOKEN =>
             /\ errThrown.code = UNAVAILABLE
             /\ errThrown.data = ObjV("status" :> IntV(429))
        /\ error.t = "ZodError" =>
             /\ errThrown.code = InvalidParams
             /\ Keys(errThrown.data) = {"issues"}
        /\ (error.t = "BacklogError" /\ error.status # Undefined) =>
             /\ Get(errThrown.data, "status") = error.status
             /\ \A s \in 400..599 :
                  error.status = IntV(s) => errThrown.code = ExpectedCode(s)

\* C26 witness: a BacklogError with status 500 attached whose message names
\* status 404 was classified INTERNAL with status 500
C26_Witness ==
    /\ errThrown # Unset
    /\ errInput.error = BacklogError(RequestFailedMessage(404), IntV(500),
                                     Undefined, Undefined)
    /\ errInput.toolName = StrV(TxtListIssues)
    /\ errThrown.code = InternalError
    /\ Get(errThrown.data, "status") = IntV(500)

\* the offset the invocation asked for: 0 when none was given
EffectiveOffset == IF Get(args, "offset") = Undefined THEN IntV(0) ELSE Get(args, "offset")
\* a paginated tool returned a page
PageReturned == Responded /\ tool \in PaginatedTools /\ outcome.t = "return"

\* C28: a nextOffset that listComments, searchWiki or activities returns is
\* a number strictly greater than the offset of the request, and the page it
\* comes with has at least one entry; with an empty page nextOffset is null.
C28_PaginationProgress ==
    PageReturned =>
        LET nextOffset == Get(StructuredContent, "nextOffset")
            page == response.body.items
        IN /\ nextOffset # Null =>
                /\ IsNumberType(nextOffset)
                /\ nextOffset.n > EffectiveOffset.n
                /\ Len(page) >= 1
           /\ page = <<>> => nextOffset = Null

\* C28 witness: searchWiki with offset 1 and limit 1 got one entry and
\* returned nextOffset 2
C28_Witness ==
    /\ PageReturned
    /\ tool = "searchWiki"
    /\ Get(args, "offset") = IntV(1)
    /\ Get(args, "limit") = IntV(1)
    /\ Len(response.body.items) = 1
    /\ Get(StructuredContent, "nextOffset") = IntV(2)

\* the invocation ended in the validation failure of its tool: InvalidParams,
\* the fixed message behind the tool's prefix, the issues and nothing else
\* in data
ValidationFailure ==
    /\ outcome.t = "throw"
    /\ outcome.error.t = "McpError"
    /\ outcome.error.code = InvalidParams
    /\ outcome.error.message =
         StrV(ToolPrefix(StrV(ToolNameText(tool))) \o TxtInvalidParameters)
    /\ Keys(outcome.error.data) = {"issues"}
    /\ outcome.error.data.f["issues"].items # <<>>
\* a tool that parses the response got a 2xx answer its output schema
\* refuses: a body that breaks it, or the no value of a 204 or 205
OutputRefused ==
    /\ Responded
    /\ tool \in BacklogTools \ DispatcherTools
    /\ ~DeleteOperation
    /\ \/ response.status \in {204, 205}
       \/ response.status \in {200, 201} /\ BreaksOutputSchema

\* C29: a 2xx response that fails the tool's output schema, the no value of
\* a 204 or 205 included, ends the invocation in the same error as a refused
\* input: InvalidParams, never InternalError, with the message "Invalid
\* parameters provided for Backlog tool." and the issues in data.
C29_BadResponseIsValidationFailure ==
    /\ OutputRefused => ValidationFailure /\ outcome.error.code # InternalError
    /\ (pc = "done" /\ tool \in BacklogTools \ DispatcherTools
          /\ ViolatesInputContract(args)) => ValidationFailure

\* C29 witness: updateIssue was answered 204 and failed as a validation
\* failure
C29_Witness ==
    /\ OutputRefused
    /\ tool = "updateIssue"
    /\ response.status = 204
    /\ ValidationFailure

\* the invocation returned a confirmation of the deletion
DeletionConfirmed ==
    /\ outcome # Unset
    /\ outcome.t = "return"
    /\ Get(StructuredContent, "status") = StrV(TxtDeleted)
\* the identifiers a delete tool was called with, as its input schema
\* returns them
DeletedIdentifiers ==
    CASE tool = "deleteIssue" -> "issueKey" :> Trimmed(Get(args, "issueIdOrKey"))
      [] tool = "deleteComment" ->
           ("issueId" :> Get(args, "issueId")) @@ ("commentId" :> Get(args, "commentId"))
      [] tool = "deleteWiki" -> "wikiId" :> Get(args, "wikiId")
      [] tool = "attachments" ->
           ("issueId" :> Get(args, "issueId"))
             @@ ("attachmentId" :> Get(args, "attachmentId"))
\* the one DELETE exchange ended well: a 2xx answer, and a body that parses
\* unless the status is 204 or 205
DeleteSucceeded ==
    /\ Responded
    /\ netCalls = 1
    /\ request.method = "DELETE"
    /\ ResponseOk(response.status)
    /\ response.status \in {204, 205} \/ response.body.t # "unparsable"

\* C30: deleteIssue, deleteComment, deleteWiki and the delete action of
\* attachments return {status: 'deleted', ...} only after their single
\* DELETE was answered 2xx and the client call resolved; when the input is
\* refused, upstream answers 429 or another failed status, the network fails
\* or the body of a 2xx other than 204/205 does not parse, the invocation
\* fails and nothing is confirmed; the confirmation holds the identifiers of
\* the input and nothing of the response.
C30_DeleteConfirmation ==
    (pc = "done" /\ DeleteOperation) =>
        /\ DeletionConfirmed <=> DeleteSucceeded
        /\ ~DeleteSucceeded => outcome.t = "throw"
        /\ DeletionConfirmed =>
             StructuredContent = ObjV(("status" :> StrV(TxtDeleted)) @@ DeletedIdentifiers)

\* C30 witness: deleteComment was answered 200 with an entity and confirmed
\* the deletion of the comment it was called for
C30_Witness ==
    /\ pc = "done"
    /\ tool = "deleteComment"
    /\ DeleteSucceeded
    /\ response.status = 200
    /\ IsObject(response.body)
    /\ StructuredContent = ObjV(("status" :> StrV(TxtDeleted))
                                @@ ("issueId" :> Get(args, "issueId"))
                                @@ ("commentId" :> Get(args, "commentId")))

====
